---- MODULE Spec2Model ----
(***************************************************************************)
(* A model of the liteCore kernel core: the round-robin task scheduler     *)
(* (kernel/task/multi_task.c), the physical frame allocator                *)
(* (kernel/mem/map.c) and the kernel heap (mem/manager.c).                 *)
(*                                                                         *)
(* Each subsystem has its own specification over the shared variables; the *)
(* variables of the other subsystems stay at their initial values.         *)
(***************************************************************************)
EXTENDS Integers, Sequences, FiniteSets, TLC

(***************************************************************************)
(* Bounds of the model.                                                    *)
(***************************************************************************)
\* Non-idle tasks the shell creates in one run (tids 1..MaxTid).
MaxTid == 3
\* Saturation value of the per-task count of timer ticks spent off the CPU.
MaxStarve == 3
\* Frames held at once by the callers of alloc_frame.
MaxOutstanding == 4
\* Frames of the managed range free_frame is tried on (0..MaxFrameArg).
MaxFrameArg == 4
\* Calls of create_chunk that fail for want of heap, per allocator call.
MaxKmallocFails == 1
\* Heap blocks held at once.
MaxLive == 2
\* Heap expansions explored.
MaxExpand == 1
\* Bytes a holder writes past the payload it asked for.
MaxOverflow == 5
\* Calls of kmalloc in an allocation-only run.
MaxPressure == 34
\* User address spaces created.
MaxAddressSpaces == 2
\* Calls of map_page_64.
MaxMaps == 1

\* Calls of fat16_write_file in a behaviour.
MaxFatWrites == 2

\* Block cache calls in a behaviour.
MaxBcOps == 5

\* VFS calls in a behaviour.
MaxVfsOps == 4

\* sbrk calls in a behaviour.
MaxSbrkCalls == 2

\* int 0x80 calls in a behaviour.
MaxInt80 == 2

\* elf_run calls in a behaviour.
MaxElfRuns == 3

\* Allocator calls from outside in a behaviour.
MaxLockOps == 3
MaxPreempts == 2
\* Calls of task_ready before one on a queued or running task.
MaxReadyCalls == 2

(***************************************************************************)
(* Program constants.                                                      *)
(***************************************************************************)
\* The null task pointer.
NULL == -1
\* idle_task.tid
IDLE == 0
\* Interrupt vectors of the two timer sources.
VEC_PIT == 32
VEC_APIC == 48

Tids == 0..MaxTid
NonIdle == 1..MaxTid

VARIABLES
    \* ---- scheduler (multi_task.c) ----
    state,              \* task->state of every TCB; "None" = not created yet
    current_task,       \* static task_t *current_task
    ready_queue_head,   \* static task_t *ready_queue_head
    ready_queue_tail,   \* static task_t *ready_queue_tail
    next,               \* task->next of every TCB
    next_tid,           \* static uint32_t next_tid
    idle_ctx,           \* what the boot context (the idle TCB) executes:
                        \* "kloop", "user" (elf_run entered user mode
                        \* directly) or "halted" (the hlt loop of task_exit)
    timer_vec,          \* the vector the build's timer fires on
    \* ---- observations of the scheduler ----
    readied,            \* tids in the order task_ready was called on them
    dispatched,         \* non-idle tids in the order of their first dispatch
    starved,            \* per task: timer ticks since it last held the CPU
    voluntary,          \* a non-idle task has yielded or exited
    \* ---- physical frame allocator (map.c) ----
    memmap,             \* static memmap_t memmap: start_frame, frames
    chunks,             \* the chunk list: chunk idx -> its bitmap words
    \* ---- observations of the frame allocator ----
    outstanding,        \* addresses alloc_frame returned, not yet freed
    reserved,           \* frame indexes memmap_reserve has set
    \* ---- kernel heap (mem/manager.c) ----
    heap_start_addr,
    heap_end_addr,
    free_list,          \* the free list in link order: <<[addr, size], ...>>
    \* ---- the holders of heap blocks, and observations ----
    live,               \* blocks handed out by kmalloc and not yet freed
    expansions,         \* calls of heap_expand so far
    last_kfree,         \* the last kfree of a block: overflow, mismatch
    pressure_log,       \* the calls of an allocation-only run, in order
    canaries,           \* addresses of words known to hold KMALLOC_CANARY
    \* ---- 4-level paging (kernel/mem/paging64.c) ----
    pt_mem,             \* page-table frames: frame number -> 512 entries
    kernel_pml4_phys,   \* frame number of the kernel PML4
    user_pml4s,         \* PML4 frames paging64_create_user_pml4 returned
    next_table_frame,   \* the next frame alloc_frame hands out
    \* ---- observations of paging ----
    map_calls,          \* calls of map_page_64 so far
    last_map,           \* the last call: arguments and return value
    \* ---- FAT16 volume (kernel/fs/fat/fat16.c) ----
    fat,                \* FAT16: cluster -> FAT entry
    root,               \* root directory: slot -> entry
    cluster_data,       \* data clusters: cluster -> bytes
    fat_writes,         \* calls of fat16_write_file so far
    last_write,         \* the last fat16_write_file: arguments and return value
    walk,               \* a cluster-chain walk in progress: the loop's variables
    \* ---- block cache (fs/block_cache.c) ----
    bc_disk,            \* the ATA drive: sector -> contents
    bc_cache,           \* the block cache, NoCache once destroyed
    bc_ops,             \* block cache calls so far
    bc_seq,             \* progress through write, flush, destroy, init, read
    bc_last_read,       \* the last block_cache_read: block, return value, data
    bc_view,            \* what callers wrote to each block, else the drive's first contents
    \* ---- VFS (kernel/fs/vfs.c) ----
    open_files,         \* the global handle table: used slot -> vfs_file
    fds,                \* task -> fd -> global handle, or -1
    fd_path,            \* task -> fd -> the path the task opened there
    backend_reads,      \* backend read_file calls so far
    vfs_ops,            \* VFS calls so far
    last_open,          \* the last vfs_open
    last_fstat,         \* the last vfs_fstat
    last_vread,         \* the last vfs_read
    \* ---- program break (kernel/syscall.c, user/syscall.c) ----
    user_brk,           \* task -> user_brk and user_brk_size, once set
    frame_zeroed,       \* frames sys_sbrk filled with zero
    sbrk_calls,         \* sbrk calls so far
    lib_history,        \* task -> its sbrk calls and their results, in order
    \* ---- system call entry (interrupt/irq_stubs.asm, kernel/syscall.c) ----
    cpu_regs,           \* the caller's registers after the last int 0x80 returned
    last_int80,         \* the last int 0x80: registers before, what the dispatcher got, its result
    int80_calls,        \* system call entries so far
    last_syscall,       \* the last syscall instruction: registers before, the frame handed on
    tcb_regs,           \* regs of the current TCB as irq_timer_entry left them
    last_stub,          \* the last library call: the system calls it placed
    last_timer,         \* the last timer interrupt: the interrupted registers
    \* ---- task table and ELF loader (kernel/task/elf.c) ----
    tasks,              \* the task table: slot -> TCB, NoTcb where tasks[slot] is NULL
    created,            \* tids handed out so far (next_tid - 1)
    last_create,        \* the last task_create of the shell: its slot, and whether every other task was dead
    last_elf,           \* the last elf_run: return value, slot of its task, whether a mapping failed
    elf_runs,           \* elf_run calls so far
    in_user,            \* the slot whose program runs in user mode, or NULL
    \* ---- locks of the allocators (mem/map.c, mem/manager.c) ----
    call_stack,         \* the allocator functions under way: function, position, argument
    held,               \* the locks held, in the order they were taken
    lock_ops,           \* allocator calls from outside so far
    \* ---- timer preemption and the interrupt flag ----
    on_cpu,             \* task whose context the CPU executes
    kpos,                \* per task: where its kernel code stands
    iflag,              \* RFLAGS.IF of the CPU
    preempts,           \* what each timer interrupt found on the CPU
    tss_rsp0,           \* tss.rsp0: the TCB whose kernel stack it points into
    cpl,                \* privilege level the CPU executes at: 0 or 3
    last_entry,         \* the last transfer of the CPU into a task's context
    \* ---- virtual-to-physical translation ----
    current_mode,       \* vmem mode: IDENTITY, OFFSET or WALK
    vmem_offset,        \* vmem_offset, in pages
    last_xlate          \* the last virt-to-phys call: variant, CR3, address, result

schedVars == <<state, current_task, ready_queue_head, ready_queue_tail, next,
               next_tid, idle_ctx, timer_vec, readied, dispatched, starved,
               voluntary>>

frameVars == <<memmap, chunks, outstanding, reserved>>

heapVars == <<heap_start_addr, heap_end_addr, free_list, live, expansions,
              last_kfree, pressure_log, canaries>>

pagingVars == <<pt_mem, kernel_pml4_phys, user_pml4s, next_table_frame,
                map_calls, last_map>>

fatVars == <<fat, root, cluster_data, fat_writes, last_write, walk>>

bcVars == <<bc_disk, bc_cache, bc_ops, bc_seq, bc_last_read, bc_view>>

vfsVars == <<open_files, fds, fd_path, backend_reads, vfs_ops, last_open, last_fstat, last_vread>>

sbrkVars == <<user_brk, frame_zeroed, sbrk_calls, lib_history>>

sysVars == <<cpu_regs, last_int80, int80_calls, last_syscall, tcb_regs,
            last_timer, last_stub>>

loaderVars == <<tasks, created, last_create, last_elf, elf_runs, in_user>>

lockVars == <<call_stack, held, lock_ops>>

preemptVars == <<on_cpu, kpos, iflag, preempts, tss_rsp0, cpl, last_entry>>

xlateVars == <<current_mode, vmem_offset, last_xlate>>

\* What each subsystem leaves alone.
nonSchedVars == <<frameVars, heapVars, pagingVars, fatVars, bcVars, vfsVars, sbrkVars, sysVars, loaderVars, lockVars, preemptVars, xlateVars>>

nonFrameVars == <<schedVars, heapVars, pagingVars, fatVars, bcVars, vfsVars, sbrkVars, sysVars, loaderVars, lockVars, preemptVars, xlateVars>>

nonHeapVars == <<schedVars, frameVars, pagingVars, fatVars, bcVars, vfsVars, sbrkVars, sysVars, loaderVars, lockVars, preemptVars, xlateVars>>

nonPagingVars == <<schedVars, frameVars, heapVars, fatVars, bcVars, vfsVars, sbrkVars, sysVars, loaderVars, lockVars, preemptVars, xlateVars>>

nonFatVars == <<schedVars, frameVars, heapVars, pagingVars, bcVars, vfsVars, sbrkVars, sysVars, loaderVars, lockVars, preemptVars, xlateVars>>

nonBcVars == <<schedVars, frameVars, heapVars, pagingVars, fatVars, vfsVars, sbrkVars, sysVars, loaderVars, lockVars, preemptVars, xlateVars>>

nonVfsVars == <<schedVars, frameVars, heapVars, pagingVars, fatVars, bcVars, sbrkVars, sysVars, loaderVars, lockVars, preemptVars, xlateVars>>

nonSbrkVars == <<schedVars, frameVars, heapVars, pagingVars, fatVars, bcVars, vfsVars, sysVars, loaderVars, lockVars, preemptVars, xlateVars>>

nonSbrkPagingVars == <<schedVars, frameVars, heapVars, fatVars, bcVars, vfsVars, sysVars, loaderVars, lockVars, preemptVars, xlateVars>>

nonSysVars == <<schedVars, frameVars, heapVars, pagingVars, fatVars, bcVars, vfsVars, sbrkVars, loaderVars, lockVars, preemptVars, xlateVars>>

nonLoaderVars == <<schedVars, frameVars, heapVars, pagingVars, fatVars, bcVars, vfsVars, sbrkVars, sysVars, lockVars, preemptVars, xlateVars>>

nonLoaderPagingVars == <<schedVars, frameVars, heapVars, fatVars, bcVars, vfsVars, sbrkVars, sysVars, lockVars, preemptVars, xlateVars>>

nonLockVars == <<schedVars, frameVars, heapVars, pagingVars, fatVars, bcVars, vfsVars, sbrkVars, sysVars, loaderVars, preemptVars, xlateVars>>

nonLockFrameVars == <<schedVars, heapVars, pagingVars, fatVars, bcVars, vfsVars, sbrkVars, sysVars, loaderVars, preemptVars, xlateVars>>

nonPreemptVars == <<schedVars, frameVars, heapVars, pagingVars, fatVars, bcVars, vfsVars, sbrkVars, sysVars, loaderVars, lockVars, xlateVars>>

nonSchedPreemptVars == <<frameVars, heapVars, pagingVars, fatVars, bcVars, vfsVars, sbrkVars, sysVars, loaderVars, lockVars, xlateVars>>

nonXlateVars == <<schedVars, frameVars, heapVars, pagingVars, fatVars, bcVars, vfsVars, sbrkVars, sysVars, loaderVars, lockVars, preemptVars>>

vars == <<schedVars, frameVars, heapVars, pagingVars, fatVars, bcVars, vfsVars, sbrkVars, sysVars, loaderVars, lockVars, preemptVars, xlateVars>>

(***************************************************************************)
(* The ready queue as the sequence of TCBs reachable from the head pointer *)
(* through the next pointers.                                              *)
(***************************************************************************)
RECURSIVE Walk(_, _)
Walk(t, fuel) ==
    IF t = NULL \/ fuel = 0 THEN <<>>
    ELSE <<t>> \o Walk(next[t], fuel - 1)

ReadyQueue == Walk(ready_queue_head, MaxTid + 2)

InQueue(t) == \E i \in 1..Len(ReadyQueue) : ReadyQueue[i] = t

Min(a, b) == IF a < b THEN a ELSE b

(***************************************************************************)
(* task_init: the boot context becomes the idle task, Running and current. *)
(***************************************************************************)
SchedInit ==
    /\ state = [t \in Tids |-> IF t = IDLE THEN "Running" ELSE "None"]
    /\ current_task = IDLE
    /\ ready_queue_head = NULL
    /\ ready_queue_tail = NULL
    /\ next = [t \in Tids |-> NULL]
    /\ next_tid = 1
    /\ idle_ctx = "kloop"
    /\ timer_vec \in {VEC_PIT, VEC_APIC}
    /\ readied = <<>>
    /\ dispatched = <<>>
    /\ starved = [t \in Tids |-> 0]
    /\ voluntary = FALSE

(***************************************************************************)
(* Appending a TCB at the tail of the ready queue, as task_ready and the   *)
(* re-enqueue of task_schedule do: tail->next = t; tail = t, or            *)
(* head = tail = t on an empty queue; then t->next = NULL.                 *)
(***************************************************************************)
EnqueueAtHead(head, tail, nxt, t) ==
    [head |-> t, tail |-> IF tail = NULL THEN t ELSE tail,
     nxt |-> [nxt EXCEPT ![t] = head]]

EnqueueTail(head, tail, nxt, t) ==
    IF tail # NULL
    THEN [head |-> head, tail |-> t,
          nxt |-> [nxt EXCEPT ![tail] = t, ![t] = NULL]]
    ELSE [head |-> t, tail |-> t, nxt |-> [nxt EXCEPT ![t] = NULL]]

(***************************************************************************)
(* task_create: a TCB in state Ready that is on no queue.  The shell       *)
(* (the boot context in kloop) is the only caller.                         *)
(***************************************************************************)
TaskCreate ==
    /\ current_task = IDLE /\ idle_ctx = "kloop"
    /\ next_tid <= MaxTid
    /\ state' = [state EXCEPT ![next_tid] = "Ready"]
    /\ next' = [next EXCEPT ![next_tid] = NULL]
    /\ next_tid' = next_tid + 1
    /\ UNCHANGED <<current_task, ready_queue_head, ready_queue_tail, idle_ctx,
                   timer_vec, readied, dispatched, starved, voluntary>>
    /\ UNCHANGED nonSchedVars

(***************************************************************************)
(* task_ready(t), called by the shell on a task it created and has not     *)
(* enqueued before.                                                        *)
(***************************************************************************)
TaskReady(t) ==
    /\ current_task = IDLE /\ idle_ctx = "kloop"
    /\ state[t] = "Ready" /\ ~InQueue(t)
    /\ \A i \in 1..Len(readied) : readied[i] # t
    /\ LET q == EnqueueTail(ready_queue_head, ready_queue_tail, next, t)
       IN  /\ state' = [state EXCEPT ![t] = "Ready"]
           /\ ready_queue_head' = q.head
           /\ ready_queue_tail' = q.tail
           /\ next' = q.nxt
    /\ readied' = Append(readied, t)
    /\ starved' = [starved EXCEPT ![t] = 0]
    /\ UNCHANGED <<current_task, next_tid, idle_ctx, timer_vec, dispatched,
                   voluntary>>
    /\ UNCHANGED nonSchedVars

(***************************************************************************)
(* Taking the next task off the ready queue: next_task = head;             *)
(* head = next_task->next; tail = NULL when the queue empties;             *)
(* next_task->next = NULL. With an empty queue nothing is taken.           *)
(***************************************************************************)
DequeuePeek(head, tail, nxt) ==
    [task |-> head, head |-> head, tail |-> tail, nxt |-> nxt]

Dequeue(head, tail, nxt) ==
    IF head # NULL
    THEN [task |-> head,
          head |-> nxt[head],
          tail |-> IF nxt[head] = NULL THEN NULL ELSE tail,
          nxt  |-> [nxt EXCEPT ![head] = NULL]]
    ELSE [task |-> NULL, head |-> head, tail |-> tail, nxt |-> nxt]

\* The current task goes back on the queue when it is still Running.
RequeueCurrent(st, t) == st[t] = "Running"

\* No next task: fall back to idle unless the current task is a live idle.
FallbackToIdle(st) == st[current_task] = "Dead" \/ current_task # IDLE

(***************************************************************************)
(* The scheduling decision of task_schedule and task_schedule_from_irq     *)
(* (the two bodies are the same up to the switch primitive): take the head *)
(* of the ready queue or fall back to idle, re-enqueue the current task if *)
(* it is Running, make the chosen task current and Running. st is the task *)
(* state table at the call.                                                *)
(***************************************************************************)
Reschedule(st) ==
    LET d       == Dequeue(ready_queue_head, ready_queue_tail, next)
        keep    == d.task = NULL /\ ~FallbackToIdle(st)
        chosen  == IF d.task # NULL THEN d.task ELSE IDLE
        requeue == RequeueCurrent(st, current_task)
        q       == IF requeue
                   THEN EnqueueTail(d.head, d.tail, d.nxt, current_task)
                   ELSE [head |-> d.head, tail |-> d.tail, nxt |-> d.nxt]
        state1  == IF requeue THEN [st EXCEPT ![current_task] = "Ready"]
                   ELSE st
    IN  IF keep
        THEN /\ state' = st
             /\ UNCHANGED <<current_task, ready_queue_head, ready_queue_tail,
                            next, dispatched>>
        ELSE /\ state' = [state1 EXCEPT ![chosen] = "Running"]
             /\ current_task' = chosen
             /\ ready_queue_head' = q.head
             /\ ready_queue_tail' = q.tail
             /\ next' = q.nxt
             /\ dispatched' =
                    IF chosen # IDLE
                       /\ \A i \in 1..Len(dispatched) : dispatched[i] # chosen
                    THEN Append(dispatched, chosen)
                    ELSE dispatched

TaskSchedule(st) == Reschedule(st)

TaskScheduleFromIrq(st) == Reschedule(st)

\* A task that holds the CPU after the step has its tick count reset.
Resumed == starved' = [starved EXCEPT ![current_task'] = 0]

\* A timer tick passes: every queued task has waited one more tick.
Ticked ==
    starved' = [t \in Tids |->
                   IF t = current_task' THEN 0
                   ELSE IF state'[t] = "Ready" /\ t # IDLE
                             /\ \E i \in 1..Len(readied) : readied[i] = t
                        THEN Min(starved[t] + 1, MaxStarve)
                        ELSE starved[t]]

(***************************************************************************)
(* task_yield by the current task: kloop yields once per iteration; a      *)
(* kernel task may yield at any point.                                     *)
(***************************************************************************)
TaskYield ==
    /\ state[current_task] = "Running"
    /\ current_task = IDLE => idle_ctx = "kloop"
    /\ TaskSchedule(state)
    /\ Resumed
    /\ voluntary' = (voluntary \/ current_task # IDLE)
    /\ UNCHANGED <<next_tid, idle_ctx, timer_vec, readied>>
    /\ UNCHANGED nonSchedVars

(***************************************************************************)
(* task_exit by the current task (sys_exit, or a kernel task's entry       *)
(* returning). First half: under irq_save the TCB is marked Dead.          *)
(* Interrupts are on again before the call of task_schedule, so a timer    *)
(* interrupt may come in between. When the boot context runs a user        *)
(* program it entered directly, the exiting TCB is the idle TCB.           *)
(***************************************************************************)
TaskExit ==
    /\ state[current_task] = "Running"
    /\ current_task = IDLE => idle_ctx = "user"
    /\ state' = [state EXCEPT ![current_task] = "Dead"]
    /\ idle_ctx' = IF current_task = IDLE THEN "exiting" ELSE idle_ctx
    /\ voluntary' = (voluntary \/ current_task # IDLE)
    /\ UNCHANGED <<current_task, ready_queue_head, ready_queue_tail, next,
                   next_tid, timer_vec, readied, dispatched, starved>>
    /\ UNCHANGED nonSchedVars

(***************************************************************************)
(* Second half of task_exit: task_schedule, then the hlt loop (reached     *)
(* only by the boot context, which no switch leaves behind).               *)
(***************************************************************************)
TaskExitSchedule ==
    /\ \/ current_task # IDLE /\ state[current_task] = "Dead"
       \/ current_task = IDLE /\ idle_ctx = "exiting"
    /\ TaskSchedule(state)
    /\ Resumed
    /\ idle_ctx' = IF current_task = IDLE THEN "halted" ELSE idle_ctx
    /\ UNCHANGED <<next_tid, timer_vec, readied, voluntary>>
    /\ UNCHANGED nonSchedVars

(***************************************************************************)
(* elf_run, first variant: task_create for the address space, then         *)
(* task_enter_usermode from the boot context. The new TCB is never         *)
(* enqueued and current_task stays the idle TCB while the program runs.    *)
(***************************************************************************)
ElfRunEnter ==
    /\ current_task = IDLE /\ idle_ctx = "kloop"
    /\ next_tid <= MaxTid
    /\ state' = [state EXCEPT ![next_tid] = "Ready"]
    /\ next' = [next EXCEPT ![next_tid] = NULL]
    /\ next_tid' = next_tid + 1
    /\ idle_ctx' = "user"
    /\ UNCHANGED <<current_task, ready_queue_head, ready_queue_tail,
                   timer_vec, readied, dispatched, starved, voluntary>>

ElfRunDirect == ElfRunEnter /\ UNCHANGED nonSchedVars

(***************************************************************************)
(* Vector 48: isr48 -> irq_timer_entry saves the registers of the current  *)
(* task and calls task_schedule_from_irq.                                  *)
(***************************************************************************)
IrqTimerEntry ==
    /\ timer_vec = VEC_APIC
    /\ TaskScheduleFromIrq(state)
    /\ Ticked
    /\ UNCHANGED <<next_tid, idle_ctx, timer_vec, readied, voluntary>>
    /\ UNCHANGED nonSchedVars

(***************************************************************************)
(* Vector 32: isr32 -> irq_handler_c(32) counts the tick, acknowledges the *)
(* PIC and returns to the interrupted task.                                *)
(***************************************************************************)
IrqHandlerC32 ==
    /\ timer_vec = VEC_PIT
    /\ UNCHANGED <<state, current_task, ready_queue_head, ready_queue_tail,
                   next, next_tid, idle_ctx, timer_vec, readied, dispatched,
                   voluntary>>
    /\ Ticked
    /\ UNCHANGED nonSchedVars

(***************************************************************************)
(* task_ready(t) as the function is written, on any TCB: under irq_save    *)
(* state = READY and t->next = NULL, then tail->next = t; tail = t, or     *)
(* head = tail = t on an empty queue. TaskReadyAgain is a call on a TCB    *)
(* that is on the queue already or is the current task.                    *)
(***************************************************************************)
task_ready(head, tail, nxt, t) ==
    IF tail # NULL
    THEN [head |-> head, tail |-> t,
          nxt |-> [[nxt EXCEPT ![t] = NULL] EXCEPT ![tail] = t]]
    ELSE [head |-> t, tail |-> t, nxt |-> [nxt EXCEPT ![t] = NULL]]

TaskReadyAgain(t) ==
    /\ current_task = IDLE /\ idle_ctx = "kloop"
    /\ state[t] # "None"
    /\ InQueue(t) \/ t = current_task
    /\ Len(readied) < MaxReadyCalls
    /\ LET q == task_ready(ready_queue_head, ready_queue_tail, next, t)
       IN  /\ state' = [state EXCEPT ![t] = "Ready"]
           /\ ready_queue_head' = q.head
           /\ ready_queue_tail' = q.tail
           /\ next' = q.nxt
    /\ readied' = Append(readied, t)
    /\ UNCHANGED <<current_task, next_tid, idle_ctx, timer_vec, dispatched,
                   starved, voluntary>>
    /\ UNCHANGED nonSchedVars

ReadyNext ==
    \/ TaskCreate
    \/ \E t \in NonIdle : TaskReady(t)
    \/ \E t \in Tids : TaskReadyAgain(t)
    \/ TaskYield
    \/ TaskExit
    \/ TaskExitSchedule
    \/ ElfRunDirect
    \/ IrqTimerEntry

SchedNext ==
    \/ TaskCreate
    \/ \E t \in NonIdle : TaskReady(t)
    \/ TaskYield
    \/ TaskExit
    \/ TaskExitSchedule
    \/ ElfRunDirect
    \/ IrqTimerEntry
    \/ IrqHandlerC32

(***************************************************************************)
(* The physical frame allocator (kernel/mem/map.c): 4 KiB frames, a lazily *)
(* created list of 1 MiB chunks, each a bitmap of 32-bit words.            *)
(***************************************************************************)
FRAME_SIZE == 4096
CHUNK_SIZE == 1048576
\* A bitmap word (uint32_t) is kept as the set of its set bit positions;
\* 0xFFFFFFFF is the word with every bit set.
WORD_FULL == 0..31

frames_per_chunk == CHUNK_SIZE \div FRAME_SIZE

chunk_word_count == (frames_per_chunk + 31) \div 32

\* The ranges memmap_init is given: memory_init's 1 MiB - 64 MiB, and a
\* range of five frames that ends inside its first chunk.
MemmapRanges ==
    { [start |-> 1048576, end |-> 67108864],
      [start |-> 1048576, end |-> 1048576 + 5 * FRAME_SIZE] }

\* memmap_init(start, end)
MemmapInit(start, end) ==
    [start_addr  |-> start,
     end_addr    |-> end,
     start_frame |-> start \div FRAME_SIZE,
     frames      |-> ((end + FRAME_SIZE - 1) \div FRAME_SIZE)
                         - (start \div FRAME_SIZE)]

FrameInit ==
    /\ \E r \in MemmapRanges : memmap = MemmapInit(r.start, r.end)
    /\ chunks = <<>>
    /\ outstanding = {}
    /\ reserved = {}

\* chunk_test, chunk_set, chunk_clear on one bitmap word
chunk_test(ch, chi, local) ==
    (local % 32) \in ch[chi][(local \div 32) + 1]

chunk_set(ch, chi, local) ==
    [ch EXCEPT ![chi][(local \div 32) + 1] = @ \cup {local % 32}]

\* A chunk_clear that leaves the bit as it is.
chunk_clear_kept(ch, chi, local) == ch

chunk_clear(ch, chi, local) ==
    [ch EXCEPT ![chi][(local \div 32) + 1] = @ \ {local % 32}]

\* find_chunk(idx) # NULL
find_chunk(ch, chi) == chi \in DOMAIN ch

\* create_chunk(idx): a chunk of zeroed words at the head of the list
create_chunk(ch, chi) ==
    [i \in (DOMAIN ch) \cup {chi} |->
        IF i = chi THEN [w \in 1..chunk_word_count |-> {}] ELSE ch[i]]

\* The lowest clear bit of a chunk, scanning words in order and skipping
\* full words; -1 when the chunk has none.
RECURSIVE FirstClear(_, _, _)
FirstClear(ch, chi, bit_idx) ==
    IF bit_idx >= frames_per_chunk THEN -1
    ELSE IF ch[chi][(bit_idx \div 32) + 1] = WORD_FULL
         THEN FirstClear(ch, chi, ((bit_idx \div 32) + 1) * 32)
    ELSE IF ~chunk_test(ch, chi, bit_idx) THEN bit_idx
    ELSE FirstClear(ch, chi, bit_idx + 1)

(***************************************************************************)
(* The chunk loop of alloc_frame from chunk chi on. create_chunk returns   *)
(* NULL when kmalloc does: the first kmalloc_fails calls of create_chunk   *)
(* fail. The result is the chunk list after the call and the address       *)
(* returned (0 = NULL).                                                    *)
(***************************************************************************)
RECURSIVE AllocScan(_, _, _)
AllocScan(ch, chi, kmalloc_fails) ==
    LET max_chunk == (memmap.frames + frames_per_chunk - 1)
                         \div frames_per_chunk
    IN  IF chi >= max_chunk THEN [chunks |-> ch, addr |-> 0]
        ELSE IF ~find_chunk(ch, chi) /\ kmalloc_fails > 0
             THEN AllocScan(ch, chi + 1, kmalloc_fails - 1)
        ELSE LET c   == IF find_chunk(ch, chi) THEN ch
                        ELSE create_chunk(ch, chi)
                 bit == FirstClear(c, chi, 0)
                 frame_no == memmap.start_frame + chi * frames_per_chunk + bit
             IN  IF bit = -1 THEN AllocScan(c, chi + 1, kmalloc_fails)
                 ELSE IF frame_no >= memmap.start_frame + memmap.frames
                      THEN [chunks |-> chunk_clear(chunk_set(c, chi, bit),
                                                   chi, bit),
                            addr |-> 0]
                 ELSE [chunks |-> chunk_set(c, chi, bit),
                       addr |-> frame_no * FRAME_SIZE]

\* alloc_frame()
AllocFrame ==
    /\ Cardinality(outstanding) < MaxOutstanding
    /\ \E kmalloc_fails \in 0..MaxKmallocFails :
          LET r == IF memmap.frames = 0 THEN [chunks |-> chunks, addr |-> 0]
                   ELSE AllocScan(chunks, 0, kmalloc_fails)
          IN  /\ chunks' = r.chunks
              /\ outstanding' = IF r.addr # 0 THEN outstanding \cup {r.addr}
                                ELSE outstanding
    /\ UNCHANGED <<memmap, reserved>>
    /\ UNCHANGED nonFrameVars

\* The addresses callers pass to free_frame: frames they hold, frames
\* they held before (0..MaxFrameArg of the range, unless reserved), NULL,
\* an unaligned address, and addresses outside the managed range.
FreeArgs ==
    outstanding
      \cup {0, memmap.start_addr + 1, memmap.start_addr - FRAME_SIZE,
            memmap.end_addr}
      \cup {memmap.start_addr + k * FRAME_SIZE :
                k \in (0..MaxFrameArg) \ reserved}

\* free_frame(addr): the chunk list after the call
FreeFrameClear(a) ==
    LET frame_no == a \div FRAME_SIZE
        idx      == frame_no - memmap.start_frame
        chi      == idx \div frames_per_chunk
        local    == idx % frames_per_chunk
    IN  IF a = 0 THEN chunks
        ELSE IF a % FRAME_SIZE # 0 THEN chunks
        ELSE IF frame_no < memmap.start_frame THEN chunks
        ELSE IF idx >= memmap.frames THEN chunks
        ELSE IF find_chunk(chunks, chi) THEN chunk_clear(chunks, chi, local)
        ELSE chunks

FreeFrame(a) ==
    /\ chunks' = FreeFrameClear(a)
    /\ outstanding' = outstanding \ {a}
    /\ UNCHANGED <<memmap, reserved>>
    /\ UNCHANGED nonFrameVars

\* The ranges memory_init reserves for the frames backing the initial
\* heap, by where the kernel image ends: 2 MiB of whole chunks, a range
\* that starts below the managed one, and the first chunk but for its
\* first and its last two frames.
ReserveRanges ==
    { [start |-> 2097152, end |-> 4194304],
      [start |-> 0, end |-> 1048576 + 2 * FRAME_SIZE],
      [start |-> 1048576 + FRAME_SIZE, end |-> 1048576 + 254 * FRAME_SIZE] }

\* The k smallest members of a set of numbers.
RECURSIVE Lowest(_, _)
Lowest(S, k) ==
    IF k = 0 \/ S = {} THEN {}
    ELSE LET m == CHOOSE x \in S : \A y \in S : x <= y
         IN  {m} \cup Lowest(S \ {m}, k - 1)

(***************************************************************************)
(* The loop of memmap_reserve over the indexes s..e-1, as the set of       *)
(* indexes whose bit it sets. An index of a chunk that does not exist      *)
(* calls create_chunk; the first kmalloc_fails such calls fail and their   *)
(* indexes are passed over ("best effort").                                *)
(***************************************************************************)
ReserveLoop(ch, s, e, kmalloc_fails) ==
    LET missing == {i \in s..(e - 1) :
                       ~find_chunk(ch, i \div frames_per_chunk)}
    IN  (s..(e - 1)) \ Lowest(missing, kmalloc_fails)

\* The chunk list once the bits of the indexes in B are set, the chunks
\* they lie in created where they did not exist.
ReserveSet(ch, B) ==
    [chi \in (DOMAIN ch) \cup {i \div frames_per_chunk : i \in B} |->
        [w \in 1..chunk_word_count |->
            (IF find_chunk(ch, chi) THEN ch[chi][w] ELSE {})
              \cup {b \in 0..31 :
                      chi * frames_per_chunk + (w - 1) * 32 + b \in B}]]

\* memmap_reserve(start, end), called by memory_init before any frame is
\* handed out.
MemmapReserve(start, end) ==
    LET start_frame == start \div FRAME_SIZE
        end_frame   == (end + FRAME_SIZE - 1) \div FRAME_SIZE
        s == IF start_frame < memmap.start_frame THEN 0
             ELSE start_frame - memmap.start_frame
        e == IF end_frame > memmap.start_frame + memmap.frames
             THEN memmap.frames
             ELSE end_frame - memmap.start_frame
        skip == \/ memmap.frames = 0
                \/ end_frame <= memmap.start_frame
                \/ start_frame >= memmap.start_frame + memmap.frames
    IN  /\ outstanding = {}
        /\ \E kmalloc_fails \in 0..MaxKmallocFails :
              LET B == IF skip THEN {}
                       ELSE ReserveLoop(chunks, s, e, kmalloc_fails)
              IN  /\ chunks' = ReserveSet(chunks, B)
                  /\ reserved' = reserved \cup B
        /\ UNCHANGED <<memmap, outstanding>>
        /\ UNCHANGED nonFrameVars

FrameNext ==
    \/ AllocFrame
    \/ \E a \in FreeArgs : FreeFrame(a)
    \/ \E r \in ReserveRanges : MemmapReserve(r.start, r.end)

(***************************************************************************)
(* The kernel heap (mem/manager.c): a first-fit free list of blocks with a *)
(* header {size, tag, next}, a canary word behind the payload, splitting,  *)
(* coalescing on kfree, and expansion at heap_end_addr. Sizes are uint32_t *)
(* in the code; the requests drawn here stay far below 2^32.               *)
(***************************************************************************)
ALIGN == 8
\* sizeof(block_header_t): two uint32_t and a 64-bit pointer
HEADER_SIZE == 16
\* sizeof(uint32_t), the canary word
CANARY_SIZE == 4
\* the least expansion, 0x100000
MIN_EXPAND == 1048576
\* heap_expand rounds to pages of 0x1000
HEAP_PAGE == 4096
\* the initial heap memory_init sets up, 0x200000
INITIAL_HEAP == 2097152

\* The page-aligned end of the kernel image, where memory_init starts the
\* heap.
HeapStarts == {2097152}

\* The sizes callers ask kmalloc for.
RequestSizes == {0, 8, 24, 1048576}

align_up(size) == ((size + (ALIGN - 1)) \div ALIGN) * ALIGN

wanted_with_canary(size) == align_up(align_up(size) + CANARY_SIZE)

\* A block size without header and canary.
total_size_payload(size) == align_up(size)

total_size(size) == wanted_with_canary(size) + HEADER_SIZE

\* mem_init(start, end)
MemInit(start, end) ==
    /\ heap_start_addr = start
    /\ heap_end_addr = end
    /\ free_list = <<[addr |-> start, size |-> end - start]>>

HeapInit ==
    /\ \E start \in HeapStarts : MemInit(start, start + INITIAL_HEAP)
    /\ live = {}
    /\ expansions = 0
    /\ last_kfree = [over |-> 0, mismatch |-> FALSE]
    /\ pressure_log = <<>>
    /\ canaries = {}

RemoveAt(fl, i) == SubSeq(fl, 1, i - 1) \o SubSeq(fl, i + 1, Len(fl))

InsertAt(fl, i, b) == SubSeq(fl, 1, i - 1) \o <<b>> \o SubSeq(fl, i, Len(fl))

\* The first-fit walk from list position i: zero-sized blocks met on the
\* way are unlinked; idx is the position of the first block of at least
\* total bytes, 0 when the walk reaches the end.
RECURSIVE FirstFit(_, _, _)
FirstFit(fl, i, total) ==
    IF i > Len(fl) THEN [fl |-> fl, idx |-> 0]
    ELSE IF fl[i].size = 0 THEN FirstFit(RemoveAt(fl, i), i, total)
    ELSE IF fl[i].size >= total THEN [fl |-> fl, idx |-> i]
    ELSE FirstFit(fl, i + 1, total)

\* Taking `total` bytes from the block at position i: split when the rest
\* holds a header and 2 * ALIGN bytes, else the whole block.
TakeBlock(fl, i, total) ==
    IF fl[i].size >= total + HEADER_SIZE + ALIGN * 2
    THEN [fl |-> [fl EXCEPT ![i] = [addr |-> fl[i].addr + total,
                                    size |-> fl[i].size - total]],
          hdr |-> fl[i].addr, size |-> total]
    ELSE [fl |-> RemoveAt(fl, i), hdr |-> fl[i].addr, size |-> fl[i].size]

\* The position before which heap_expand links the new block: behind
\* every block of a lower address.
RECURSIVE ExpandPos(_, _, _)
ExpandPos(fl, i, a) ==
    IF i <= Len(fl) /\ fl[i].addr < a THEN ExpandPos(fl, i + 1, a) ELSE i

\* heap_expand(additional_size): the free list after it; heap_end_addr
\* moves up by the page-rounded size.
PageRound(n) == ((n + (HEAP_PAGE - 1)) \div HEAP_PAGE) * HEAP_PAGE

HeapExpand(fl, hend, additional_size) ==
    LET sz  == PageRound(additional_size)
        nb  == [addr |-> hend, size |-> sz]
        pos == ExpandPos(fl, 1, hend)
        ins == InsertAt(fl, pos, nb)
        \* merge with the previous block if adjacent
        mp  == IF pos > 1 /\ fl[pos - 1].addr + fl[pos - 1].size = hend
               THEN [fl |-> RemoveAt([ins EXCEPT ![pos - 1].size = @ + sz],
                                     pos),
                     at |-> pos - 1]
               ELSE [fl |-> ins, at |-> pos]
        \* merge with the next block if adjacent
        mn  == IF mp.at < Len(mp.fl)
                  /\ mp.fl[mp.at].addr + mp.fl[mp.at].size
                         = mp.fl[mp.at + 1].addr
               THEN RemoveAt([mp.fl EXCEPT ![mp.at].size =
                                  @ + mp.fl[mp.at + 1].size], mp.at + 1)
               ELSE mp.fl
    IN  IF additional_size = 0 THEN [fl |-> fl, hend |-> hend]
        ELSE IF fl = <<>> THEN [fl |-> <<nb>>, hend |-> hend + sz]
        ELSE [fl |-> mn, hend |-> hend + sz]

(***************************************************************************)
(* kmalloc_internal(size, retry_count) on free list fl and heap end hend.  *)
(* The result: the free list and heap end after the call, the header       *)
(* address and size of the block handed out (hdr = 0: NULL returned), and  *)
(* the number of heap_expand calls made.                                   *)
(***************************************************************************)
RECURSIVE KmallocInternal(_, _, _, _)
KmallocInternal(fl, hend, size, retry_count) ==
    IF size = 0 \/ fl = <<>> \/ retry_count > 3
    THEN [fl |-> fl, hend |-> hend, hdr |-> 0, size |-> 0, expands |-> 0]
    ELSE LET fit == FirstFit(fl, 1, total_size(size))
         IN  IF fit.idx # 0
             THEN LET t == TakeBlock(fit.fl, fit.idx, total_size(size))
                  IN  [fl |-> t.fl, hend |-> hend, hdr |-> t.hdr,
                       size |-> t.size, expands |-> 0]
             ELSE LET expand_size ==
                          IF total_size(size) < MIN_EXPAND THEN MIN_EXPAND
                          ELSE total_size(size)
                      x == HeapExpand(fit.fl, hend, expand_size)
                      r == KmallocInternal(x.fl, x.hend, size,
                                           retry_count + 1)
                  IN  [r EXCEPT !.expands = @ + 1]

\* What one call of kmalloc(size) did: the pointer returned (0 = NULL)
\* and the number of heap_expand calls it made.
KmallocResult(size) ==
    LET r == KmallocInternal(free_list, heap_end_addr, size, 0)
    IN  [size |-> size,
         ptr |-> IF r.hdr = 0 THEN 0 ELSE r.hdr + HEADER_SIZE,
         expands |-> r.expands]

\* The canary words left after the bytes lo..hi-1 are written.
Overwritten(cs, lo, hi) == {a \in cs : ~(a < hi /\ a + CANARY_SIZE > lo)}

\* The canary words after kmalloc(size) handed out the block at hdr of
\* blk_size bytes: the header, the header of the remainder of a split and
\* the payload the holder fills are written, and the canary is stored at
\* user_ptr + wanted_with_canary - 4.
CanariesAfter(cs, hdr, blk_size, size) ==
    Overwritten(
        Overwritten(cs, hdr, hdr + HEADER_SIZE + size),
        hdr + total_size(size),
        IF blk_size = total_size(size)
        THEN hdr + total_size(size) + HEADER_SIZE
        ELSE hdr + total_size(size))
    \cup {hdr + HEADER_SIZE + wanted_with_canary(size) - CANARY_SIZE}

\* The state change of kmalloc(size).
KmallocOp(size) ==
    LET r == KmallocInternal(free_list, heap_end_addr, size, 0)
    IN  /\ free_list' = r.fl
        /\ heap_end_addr' = r.hend
        /\ expansions' = expansions + r.expands
        /\ live' = IF r.hdr = 0 THEN live
                   ELSE live \cup {[ptr |-> r.hdr + HEADER_SIZE,
                                    size |-> r.size, req |-> size]}
        /\ UNCHANGED heap_start_addr

\* kmalloc(size)
Kmalloc(size) ==
    /\ Cardinality(live) < MaxLive
    /\ expansions + KmallocResult(size).expands <= MaxExpand
    /\ KmallocOp(size)
    /\ UNCHANGED <<last_kfree, pressure_log, canaries>>
    /\ UNCHANGED nonHeapVars

\* kmalloc(size) in a run that follows the contents of memory.
KmallocTracked(size) ==
    /\ Cardinality(live) < MaxLive
    /\ expansions + KmallocResult(size).expands <= MaxExpand
    /\ KmallocOp(size)
    /\ canaries' =
          IF live' = live THEN canaries
          ELSE LET b == CHOOSE x \in live' \ live : TRUE
               IN  CanariesAfter(canaries, b.ptr - HEADER_SIZE, b.size, size)
    /\ UNCHANGED <<last_kfree, pressure_log>>
    /\ UNCHANGED nonHeapVars

(***************************************************************************)
(* The canary check of kfree on block b, whose holder has written `over`   *)
(* bytes past the payload it asked for. kmalloc wrote the canary at        *)
(* user_ptr + wanted_with_canary - 4; kfree reads the word at              *)
(* user_ptr + (hdr->size - sizeof header) - 4, when hdr->size exceeds      *)
(* header plus canary. The result is the set of possible outcomes          *)
(* (TRUE = mismatch logged): a word the holder wrote over differs; the     *)
(* canary untouched matches; the last word of a block that was not split,  *)
(* which this allocation never wrote, holds what was there before: the     *)
(* canary of an earlier block that ended there (in the runs that follow    *)
(* the contents of memory), or else a word of any value.                   *)
(***************************************************************************)
CanaryMismatch(b, over) ==
    LET written == wanted_with_canary(b.req) - CANARY_SIZE
        checked == (b.size - HEADER_SIZE) - CANARY_SIZE
    IN  IF ~(b.size > HEADER_SIZE + CANARY_SIZE) THEN {FALSE}
        ELSE IF b.req + over > checked THEN {TRUE}
        ELSE IF checked = written THEN {FALSE}
        ELSE IF b.ptr + checked \in canaries THEN {FALSE}
        ELSE BOOLEAN

\* The address-sorted insert of kfree.
RECURSIVE FreePos(_, _, _)
FreePos(fl, i, hdr) ==
    IF i + 1 <= Len(fl) /\ fl[i + 1].addr < hdr THEN FreePos(fl, i + 1, hdr)
    ELSE i + 1

InsertFree(fl, blk) ==
    IF fl = <<>> \/ blk.addr < fl[1].addr THEN <<blk>> \o fl
    ELSE InsertAt(fl, FreePos(fl, 1, blk.addr), blk)

\* A coalescing pass that merges nothing.
CoalesceNone(fl, i) == fl

\* The coalescing loop of kfree from list position i.
RECURSIVE Coalesce(_, _)
Coalesce(fl, i) ==
    IF i >= Len(fl) THEN fl
    ELSE IF fl[i].addr + fl[i].size = fl[i + 1].addr
         THEN Coalesce(RemoveAt([fl EXCEPT ![i].size = @ + fl[i + 1].size],
                                i + 1), i)
    ELSE Coalesce(fl, i + 1)

\* kfree(ptr) of a block in use, whose holder has written `over` bytes
\* past the payload it asked for, all of them inside the block.
Kfree(b, over) ==
    /\ b \in live
    /\ b.req + over <= b.size - HEADER_SIZE
    /\ b.ptr - HEADER_SIZE >= heap_start_addr
    /\ \E m \in CanaryMismatch(b, over) :
          last_kfree' = [over |-> over, mismatch |-> m]
    /\ free_list' = Coalesce(InsertFree(free_list,
                                        [addr |-> b.ptr - HEADER_SIZE,
                                         size |-> b.size]), 1)
    /\ live' = live \ {b}
    /\ canaries' = Overwritten(canaries, b.ptr + b.req, b.ptr + b.req + over)
    /\ UNCHANGED <<heap_start_addr, heap_end_addr, expansions, pressure_log>>
    /\ UNCHANGED nonHeapVars

\* kfree(NULL), and kfree of a pointer whose header lies below the heap:
\* both return at once.
KfreeIgnored(ptr) ==
    /\ ptr = 0 \/ ptr - HEADER_SIZE < heap_start_addr
    /\ UNCHANGED heapVars
    /\ UNCHANGED nonHeapVars

\* Requests that leave less than a header and 2 * ALIGN bytes of the free
\* block they are taken from: 0x1FFFE0 takes the fresh heap whole.
CanarySizes == {8, 24, 2097120}

\* kmalloc and kfree under holders that stay inside what they asked for.
CanaryNext ==
    \/ \E size \in CanarySizes : KmallocTracked(size)
    \/ \E b \in live : Kfree(b, 0)

HeapNext ==
    \/ \E size \in RequestSizes : Kmalloc(size)
    \/ \E b \in live : \E over \in 0..MaxOverflow : Kfree(b, over)
    \/ \E ptr \in {0, heap_start_addr + ALIGN} : KfreeIgnored(ptr)

\* The block sizes of allocation-only runs: 64 KiB and its neighbours.
PressureSizes == {32768, 65536, 131072, 262144}

\* One more kmalloc(size) of a run that allocates blocks of one size and
\* frees none.
PressureKmalloc(size) ==
    /\ Len(pressure_log) < MaxPressure
    /\ \A i \in 1..Len(pressure_log) : pressure_log[i].size = size
    /\ KmallocOp(size)
    /\ pressure_log' = Append(pressure_log, KmallocResult(size))
    /\ UNCHANGED <<last_kfree, canaries>>
    /\ UNCHANGED nonHeapVars

PressureNext == \E size \in PressureSizes : PressureKmalloc(size)

(***************************************************************************)
(* 64-bit 4-level paging (kernel/mem/paging64.c). Addresses are kept as    *)
(* page numbers (address >> 12): the operations here are given             *)
(* page-aligned addresses. A page-table entry is [p, f]: the frame number  *)
(* it points to and its low 12 bits. A table of 512 entries is kept as     *)
(* [fill, ent]: the entries written one by one (ent), over the pattern the *)
(* loop that filled the table wrote (entry i = [fill.p + i * fill.step,    *)
(* fill.f]; all zero for a cleared table).                                 *)
(***************************************************************************)
PAGING_PRESENT == 1
PAGING_RW == 2
PAGING_USER == 4
\* bit 7 of a PDPT or PD entry: a 1 GiB or 2 MiB page
PAGING_PS == 128
\* entries of a table
PT_ENTRIES == 512

PtIdx == 0..(PT_ENTRIES - 1)

NoEntry == [p |-> 0, f |-> 0]

EmptyTable == [fill |-> [p |-> 0, step |-> 0, f |-> 0], ent |-> <<>>]

\* table[i]
Ent(tbl, i) ==
    IF i \in DOMAIN tbl.ent THEN tbl.ent[i]
    ELSE [p |-> tbl.fill.p + i * tbl.fill.step, f |-> tbl.fill.f]

\* table[i] = e
SetEnt(tbl, i, e) ==
    [tbl EXCEPT !.ent = [x \in (DOMAIN tbl.ent) \cup {i} |->
                            IF x = i THEN e ELSE tbl.ent[x]]]

\* flag bit b (a power of two) of the 12 flag bits f
HasFlag(f, b) == (f \div b) % 2 = 1

WithFlag(f, b) == IF HasFlag(f, b) THEN f ELSE f + b

WithoutFlag(f, b) == IF HasFlag(f, b) THEN f - b ELSE f

\* (virt >> 39) & 0x1FF and the like, on the page number of virt
pml4_idx(vpn) == (vpn \div 134217728) % 512

pdpt_idx(vpn) == (vpn \div 262144) % 512

pd_idx(vpn) == (vpn \div 512) % 512

pt_idx(vpn) == vpn % 512

\* The frames paging64_init_kernel_pml4 takes for the kernel PML4, the
\* PDPT of entry 0 and its four page directories.
KernelPml4Frame == 256

KernelPdptFrame == 257

KernelPdFrame(i) == 258 + i

FirstFreeFrame == 262

\* paging64_init_kernel_pml4: the low 4 GiB identity-mapped by 2 MiB pages
\* (0x87) under PML4[0]; the firmware's PML4 maps nothing else.
PagingInit ==
    /\ kernel_pml4_phys = KernelPml4Frame
    /\ pt_mem =
         [t \in KernelPml4Frame..(FirstFreeFrame - 1) |->
            IF t = KernelPml4Frame
            THEN SetEnt(EmptyTable, 0, [p |-> KernelPdptFrame, f |-> 7])
            ELSE IF t = KernelPdptFrame
            THEN [EmptyTable EXCEPT
                    !.ent = [i \in 0..3 |-> [p |-> KernelPdFrame(i),
                                             f |-> 7]]]
            ELSE [fill |-> [p |-> (t - KernelPdFrame(0)) * 262144,
                            step |-> 512, f |-> 135],
                  ent |-> <<>>]]
    /\ user_pml4s = {}
    /\ next_table_frame = FirstFreeFrame
    /\ map_calls = 0
    /\ last_map = [pml4 |-> 0, phys |-> 0, virt |-> 0, flags |-> 0,
                   ret |-> 0, split |-> FALSE]

(***************************************************************************)
(* The page walk of virt from a PML4, level by level as                    *)
(* vmem_virt_to_phys64 does it, on page numbers: whether the page is       *)
(* mapped, the frame it resolves to, the flag bits of the entry that maps  *)
(* it, the size of the mapping, and whether every level allows user        *)
(* access.                                                                 *)
(***************************************************************************)
NotMapped == [ok |-> FALSE, pfn |-> 0, flags |-> 0, level |-> "none",
              user |-> FALSE]

PageWalk(mem, pml4, vpn) ==
    LET e4 == Ent(mem[pml4], pml4_idx(vpn))
    IN  IF ~HasFlag(e4.f, PAGING_PRESENT) THEN NotMapped
        ELSE LET e3 == Ent(mem[e4.p], pdpt_idx(vpn))
        IN  IF ~HasFlag(e3.f, PAGING_PRESENT) THEN NotMapped
            ELSE IF HasFlag(e3.f, PAGING_PS)
                 THEN [ok |-> TRUE, pfn |-> e3.p + (vpn % 262144),
                       flags |-> WithoutFlag(e3.f, PAGING_PS),
                       level |-> "1G",
                       user |-> HasFlag(e4.f, PAGING_USER)
                                   /\ HasFlag(e3.f, PAGING_USER)]
            ELSE LET e2 == Ent(mem[e3.p], pd_idx(vpn))
            IN  IF ~HasFlag(e2.f, PAGING_PRESENT) THEN NotMapped
                ELSE IF HasFlag(e2.f, PAGING_PS)
                     THEN [ok |-> TRUE, pfn |-> e2.p + (vpn % 512),
                           flags |-> WithoutFlag(e2.f, PAGING_PS),
                           level |-> "2M",
                           user |-> HasFlag(e4.f, PAGING_USER)
                                       /\ HasFlag(e3.f, PAGING_USER)
                                       /\ HasFlag(e2.f, PAGING_USER)]
                ELSE LET e1 == Ent(mem[e2.p], pt_idx(vpn))
                IN  IF ~HasFlag(e1.f, PAGING_PRESENT) THEN NotMapped
                    ELSE [ok |-> TRUE, pfn |-> e1.p, flags |-> e1.f,
                          level |-> "4K",
                          user |-> HasFlag(e4.f, PAGING_USER)
                                      /\ HasFlag(e3.f, PAGING_USER)
                                      /\ HasFlag(e2.f, PAGING_USER)
                                      /\ HasFlag(e1.f, PAGING_USER)]

\* Memory with table frame t set to tbl (a frame not seen before is added).
WithTable(mem, t, tbl) ==
    [x \in (DOMAIN mem) \cup {t} |-> IF x = t THEN tbl ELSE mem[x]]

\* One level of map_page_64: entry idx of table tbl must lead to a table of
\* the next level. An absent entry gets a zeroed frame from
\* alloc_page_table (entry flags P|RW|USER); alloc says whether that call
\* succeeds. The result: memory, the next free frame, ok.
EnsureTable(mem, nf, tbl, idx, alloc) ==
    IF HasFlag(Ent(mem[tbl], idx).f, PAGING_PRESENT)
    THEN [mem |-> mem, nf |-> nf, ok |-> TRUE]
    ELSE IF ~alloc THEN [mem |-> mem, nf |-> nf, ok |-> FALSE]
    ELSE [mem |-> [WithTable(mem, nf, EmptyTable) EXCEPT
                      ![tbl] = SetEnt(@, idx, [p |-> nf, f |-> 7])],
          nf |-> nf + 1, ok |-> TRUE]

\* A split that copies only the first entry's frame to every window.
SplitTableFlat(e) ==
    [fill |-> [p |-> e.p, step |-> 0, f |-> WithoutFlag(e.f, PAGING_PS)],
     ent |-> <<>>]

\* The page table a 2 MiB page is split into: 512 entries of 4 KiB, the
\* flags of the large page without PS.
SplitTable(e) ==
    [fill |-> [p |-> e.p, step |-> 1, f |-> WithoutFlag(e.f, PAGING_PS)],
     ent |-> <<>>]

\* The PD level of map_page_64: an absent entry gets a new page table, a
\* 2 MiB page is split, a page table is kept.
EnsurePt(mem, nf, pd, idx, alloc) ==
    LET e == Ent(mem[pd], idx)
    IN  IF HasFlag(e.f, PAGING_PRESENT) /\ HasFlag(e.f, PAGING_PS)
        THEN IF ~alloc THEN [mem |-> mem, nf |-> nf, ok |-> FALSE]
             ELSE [mem |-> [WithTable(mem, nf, SplitTable(e)) EXCEPT
                               ![pd] = SetEnt(@, idx, [p |-> nf, f |-> 7])],
                   nf |-> nf + 1, ok |-> TRUE]
        ELSE EnsureTable(mem, nf, pd, idx, alloc)

\* A leaf entry that drops the flags asked for.
LeafEntryPresentOnly(phys, flags) == [p |-> phys, f |-> PAGING_PRESENT]

\* The leaf entry map_page_64 writes: phys and the low 12 flag bits, with
\* PRESENT forced.
LeafEntry(phys, flags) ==
    [p |-> phys, f |-> WithFlag(flags, PAGING_PRESENT) % 4096]

(***************************************************************************)
(* map_page_64(pml4_phys, phys, virt, flags). allocs is the number of      *)
(* alloc_page_table calls that succeed during the call. The result:        *)
(* memory and the next free frame after the call, and the return value.    *)
(***************************************************************************)
MapPage64(mem, nf, pml4, phys, virt, flags, allocs) ==
    LET l4 == EnsureTable(mem, nf, pml4, pml4_idx(virt), allocs >= 1)
        a4 == allocs - (l4.nf - nf)
        pdpt == Ent(l4.mem[pml4], pml4_idx(virt)).p
        l3 == EnsureTable(l4.mem, l4.nf, pdpt, pdpt_idx(virt), a4 >= 1)
        a3 == a4 - (l3.nf - l4.nf)
        pd == Ent(l3.mem[pdpt], pdpt_idx(virt)).p
        l2 == EnsurePt(l3.mem, l3.nf, pd, pd_idx(virt), a3 >= 1)
        pt == Ent(l2.mem[pd], pd_idx(virt)).p
    IN  IF ~l4.ok THEN [mem |-> l4.mem, nf |-> l4.nf, ret |-> -1]
        ELSE IF ~l3.ok THEN [mem |-> l3.mem, nf |-> l3.nf, ret |-> -1]
        ELSE IF ~l2.ok THEN [mem |-> l2.mem, nf |-> l2.nf, ret |-> -1]
        ELSE [mem |-> [l2.mem EXCEPT ![pt] =
                           SetEnt(@, pt_idx(virt), LeafEntry(phys, flags))],
              nf |-> l2.nf, ret |-> 0]

\* paging64_create_user_pml4: entries 1..255 cleared, 256..511 and entry 0
\* copied from the kernel PML4.
CreateUserPml4 ==
    /\ Cardinality(user_pml4s) < MaxAddressSpaces
    /\ kernel_pml4_phys # 0
    /\ pt_mem' = WithTable(pt_mem, next_table_frame,
                    [EmptyTable EXCEPT
                       !.ent = [i \in {x \in DOMAIN pt_mem[kernel_pml4_phys].ent
                                          : x = 0 \/ x >= 256} |->
                                   pt_mem[kernel_pml4_phys].ent[i]]])
    /\ user_pml4s' = user_pml4s \cup {next_table_frame}
    /\ next_table_frame' = next_table_frame + 1
    /\ UNCHANGED <<kernel_pml4_phys, map_calls, last_map>>
    /\ UNCHANGED nonPagingVars

\* The user pages the loaders and sbrk map: two pages of one 2 MiB region
\* of the identity-mapped low memory (4 MiB up), and a page under PML4[1].
UserPages == {1024, 1025, 134217728 + 16}

\* The frames alloc_frame gave the callers for their pages.
UserFrames == {12288, 12289}

\* The flags callers pass: P|USER (read-only ELF segment) and P|RW|USER
\* (writable segment, user stack, sbrk).
UserFlags == {5, 7}

\* A call map_page_64(pml4, phys, virt, flags) by a loader or sbrk. Of the
\* alloc_page_table calls it makes, the first allocs succeed: all of them
\* when it returns 0.
MapPage(pml4, phys, virt, flags, allocs) ==
    /\ map_calls < MaxMaps
    /\ pml4 \in user_pml4s
    /\ LET r == MapPage64(pt_mem, next_table_frame, pml4, phys, virt, flags,
                          allocs)
       IN  /\ r.ret = 0 => r.nf - next_table_frame = allocs
           /\ pt_mem' = r.mem
           /\ next_table_frame' = r.nf
           /\ last_map' = [pml4 |-> pml4, phys |-> phys, virt |-> virt,
                           flags |-> flags, ret |-> r.ret,
                           split |-> PageWalk(pt_mem, pml4, virt).level
                                         = "2M"]
    /\ map_calls' = map_calls + 1
    /\ UNCHANGED <<kernel_pml4_phys, user_pml4s>>
    /\ UNCHANGED nonPagingVars

PagingNext ==
    \/ CreateUserPml4
    \/ \E pml4 \in user_pml4s, phys \in UserFrames, virt \in UserPages,
          flags \in UserFlags, allocs \in 0..3 :
             MapPage(pml4, phys, virt, flags, allocs)

(***************************************************************************)
(* FAT16 (kernel/fs/fat/fat16.c) on a volume mounted from an in-memory     *)
(* image. The volume is kept by its regions: the FAT (one value per        *)
(* cluster, the copies being written together), the root directory (one    *)
(* record per 32-byte slot) and the data clusters (their bytes). Names and *)
(* paths are sequences of characters.                                      *)
(***************************************************************************)
bytes_per_sector == 512

sectors_per_cluster == 1

max_root_entries == 16

\* Data clusters of the volume: (total_sectors - first_data_sector) /
\* sectors_per_cluster.
total_clusters == 4

cluster_bytes == bytes_per_sector * sectors_per_cluster

FatClusters == 2..(2 + total_clusters - 1)

\* 0xFFFF: the last cluster of a chain; 0xFFF8 and above end a chain walk.
FAT_EOC == 65535

FAT_EOC_MIN == 65528

\* 0xFFFFFFFF: no offset.
NoOff == -1

ATTR_VOLUME == 8

ATTR_ARCHIVE == 32

EndSlot == [kind |-> "end", name |-> <<>>, attr |-> 0, start |-> 0,
            size |-> 0]

DeletedSlot == [kind |-> "deleted", name |-> <<>>, attr |-> 0, start |-> 0,
                size |-> 0]

\* No chain walk was started.
NoWalk == [op |-> "none", at |-> "idle", f |-> <<>>, dir |-> <<>>, cur |-> 0,
           nxt |-> 0, bytes_read |-> 0, bytes_to_read |-> 0]

\* A formatted volume from which one file was deleted: slot 0 is marked
\* 0xE5, the rest of the root directory and the FAT are zero.
FatInit ==
    /\ fat = [c \in FatClusters |-> 0]
    /\ root = [s \in 0..(max_root_entries - 1) |->
                  IF s = 0 THEN DeletedSlot ELSE EndSlot]
    /\ cluster_data = [c \in FatClusters |-> [i \in 1..cluster_bytes |-> 0]]
    /\ fat_writes = 0
    /\ last_write = [path |-> <<>>, buf |-> <<>>, len |-> 0, ret |-> 0,
                     before |-> [ret |-> -2, out |-> <<>>]]
    /\ walk = NoWalk

ToUpper(c) ==
    CASE c = "a" -> "A"
      [] c = "b" -> "B"
      [] c = "t" -> "T"
      [] OTHER -> c

\* Characters of name before the first '.', at most 8.
RECURSIVE BaseLen(_, _)
BaseLen(name, si) ==
    IF si < Len(name) /\ name[si + 1] # "." /\ si < 8
    THEN BaseLen(name, si + 1)
    ELSE si

\* make_shortname: 11 bytes, blank padded, upper case, base then extension.
make_shortname(name) ==
    LET bl == BaseLen(name, 0)
        si == IF bl < Len(name) /\ name[bl + 1] = "." THEN bl + 1 ELSE bl
    IN  [i \in 1..11 |->
            IF i <= bl THEN ToUpper(name[i])
            ELSE IF i >= 9 /\ si + (i - 8) <= Len(name)
                 THEN ToUpper(name[si + (i - 8)])
                 ELSE " "]

\* fat16_find_root_entry_bytes from slot s on: r = 0 and the slot of the
\* entry, or r = -1 and the slot a new entry can take.
RECURSIVE FindRootEntry(_, _, _, _)
FindRootEntry(rt, sn, s, first_free) ==
    IF s = max_root_entries
    THEN [r |-> -1, ent |-> NoOff, free |-> first_free]
    ELSE IF rt[s].kind = "end"
    THEN [r |-> -1, ent |-> NoOff, free |-> s]
    ELSE IF rt[s].kind = "deleted"
    THEN FindRootEntry(rt, sn, s + 1,
                       IF first_free = NoOff THEN s ELSE first_free)
    ELSE IF (rt[s].attr \div ATTR_VOLUME) % 2 = 1
    THEN FindRootEntry(rt, sn, s + 1, first_free)
    ELSE IF rt[s].name = sn
    THEN [r |-> 0, ent |-> s, free |-> first_free]
    ELSE FindRootEntry(rt, sn, s + 1, first_free)

RECURSIVE SkipSlashes(_)
SkipSlashes(p) ==
    IF p # <<>> /\ Head(p) = "/" THEN SkipSlashes(Tail(p)) ELSE p

\* Length of the first component of p: up to the next '/', at most 12.
RECURSIVE CompLen(_, _)
CompLen(p, ci) ==
    IF ci < Len(p) /\ p[ci + 1] # "/" /\ ci < 12
    THEN CompLen(p, ci + 1)
    ELSE ci

\* fat16_resolve_path_bytes on a volume whose root holds no directory: the
\* last component is looked up in the root, a path through anything else
\* gives -2.
fat16_resolve_path_bytes(rt, path) ==
    LET p == SkipSlashes(path)
        ci == CompLen(p, 0)
        comp == SubSeq(p, 1, ci)
        rest == SkipSlashes(SubSeq(p, ci + 1, Len(p)))
    IN  IF p = <<>> THEN [r |-> -2, ent |-> NoOff, free |-> NoOff]
        ELSE IF rest = <<>>
        THEN FindRootEntry(rt, make_shortname(comp), 0, NoOff)
        ELSE [r |-> -2, ent |-> NoOff, free |-> NoOff]

\* free_chain: the entries of the chain from cur on are set to 0.
RECURSIVE free_chain(_, _)
free_chain(f, cur) ==
    IF cur >= 2 /\ cur < FAT_EOC_MIN /\ cur \in DOMAIN f
    THEN LET nxt == f[cur]
             f1 == [f EXCEPT ![cur] = 0]
         IN  IF nxt = 0 \/ nxt >= FAT_EOC_MIN THEN f1
             ELSE free_chain(f1, nxt)
    ELSE f

\* The free clusters in ascending order from c on, at most n of them.
RECURSIVE FreeList(_, _, _)
FreeList(f, c, n) ==
    IF c >= 2 + total_clusters \/ n = 0 THEN <<>>
    ELSE IF f[c] = 0 THEN <<c>> \o FreeList(f, c + 1, n - 1)
    ELSE FreeList(f, c + 1, n)

\* allocate_chain: the first n free clusters, linked in order, the last
\* marked 0xFFFF.
allocate_chain(f, n) ==
    LET list == FreeList(f, 2, n)
    IN  IF n = 0 THEN [ret |-> -1, fat |-> f, start |-> 0]
        ELSE IF Len(list) < n THEN [ret |-> -2, fat |-> f, start |-> 0]
        ELSE [ret |-> 0,
              fat |-> [c \in DOMAIN f |->
                         IF \E i \in 1..n : list[i] = c
                         THEN LET i == CHOOSE k \in 1..n : list[k] = c
                              IN  IF i = n THEN FAT_EOC ELSE list[i + 1]
                         ELSE f[c]],
              start |-> list[1]]

\* The data loop of fat16_write_file: each cluster of the chain gets the
\* next cluster_bytes of buf, the rest of the last one zeroed.
RECURSIVE WriteClusters(_, _, _, _, _, _)
WriteClusters(f, cd, cur, buf, written, remaining) ==
    IF cur >= 2 /\ cur < FAT_EOC_MIN /\ remaining > 0
    THEN LET to_copy == IF remaining > cluster_bytes THEN cluster_bytes
                        ELSE remaining
             cd1 == [cd EXCEPT ![cur] =
                        [i \in 1..cluster_bytes |->
                            IF i <= to_copy THEN buf[written + i] ELSE 0]]
             nxt == f[cur]
         IN  IF nxt = 0 \/ nxt >= FAT_EOC_MIN THEN cd1
             ELSE WriteClusters(f, cd1, nxt, buf, written + to_copy,
                                remaining - to_copy)
    ELSE cd

\* fat16_write_file(sb, name, buf, len): the volume after the call and the
\* return value.
fat16_write_file(f, rt, cd, name, buf, len) ==
    LET res == fat16_resolve_path_bytes(rt, name)
        f1 == IF res.r = 0 /\ rt[res.ent].start >= 2
              THEN free_chain(f, rt[res.ent].start) ELSE f
        ent == IF res.r = 0 THEN rt[res.ent]
               ELSE [kind |-> "live", name |-> make_shortname(name),
                     attr |-> ATTR_ARCHIVE, start |-> 0, size |-> 0]
        entry_offset == IF res.r = 0 THEN res.ent ELSE res.free
        need0 == ((len + cluster_bytes - 1) \div cluster_bytes) % 65536
        need == IF need0 = 0 THEN 1 ELSE need0
        a == allocate_chain(f1, need)
        same == [fat |-> f, root |-> rt, data |-> cd]
    IN  IF res.r = -1 /\ res.free = NoOff
        THEN [ret |-> -2] @@ same
        ELSE IF res.r # 0 /\ res.r # -1
        THEN [ret |-> -2] @@ same
        ELSE IF len = 0
        THEN [ret |-> 0, fat |-> f1,
              root |-> [rt EXCEPT ![entry_offset] =
                           [ent EXCEPT !.start = 0, !.size = 0]],
              data |-> cd]
        ELSE IF a.ret # 0
        THEN [ret |-> -3, fat |-> f1, root |-> rt, data |-> cd]
        ELSE [ret |-> 0, fat |-> a.fat,
              root |-> [rt EXCEPT ![entry_offset] =
                           [ent EXCEPT !.start = a.start, !.size = len]],
              data |-> WriteClusters(a.fat, cd, a.start, buf, 0, len)]

\* The data loop of fat16_read_file: the bytes of the chain from cur on,
\* up to bytes_to_read.
RECURSIVE ReadClusters(_, _, _, _, _)
ReadClusters(f, cd, cur, bytes_read, bytes_to_read) ==
    IF cur >= 2 /\ cur < FAT_EOC_MIN /\ bytes_read < bytes_to_read
    THEN LET left == bytes_to_read - bytes_read
             copy == IF left > cluster_bytes THEN cluster_bytes ELSE left
             got == SubSeq(cd[cur], 1, copy)
             nxt == f[cur]
         IN  IF nxt = 0 \/ nxt >= FAT_EOC_MIN THEN got
             ELSE got \o ReadClusters(f, cd, nxt, bytes_read + copy,
                                      bytes_to_read)
    ELSE <<>>

\* fat16_read_file(sb, name, buf, len, out_len): the return value and the
\* out_len bytes put in buf.
fat16_read_file(f, rt, cd, name, len) ==
    LET res == fat16_resolve_path_bytes(rt, name)
    IN  IF res.r # 0 THEN [ret |-> -2, out |-> <<>>]
        ELSE IF rt[res.ent].size = 0 THEN [ret |-> 0, out |-> <<>>]
        ELSE IF rt[res.ent].start < 2 THEN [ret |-> -3, out |-> <<>>]
        ELSE [ret |-> 0,
              out |-> ReadClusters(f, cd, rt[res.ent].start, 0,
                         IF rt[res.ent].size > len THEN len
                         ELSE rt[res.ent].size)]

\* The paths written: a name in the current form, the same file from the
\* root, and a name with an extension.
FatPaths == {<<"a">>, <<"/", "a">>, <<"b", ".", "t">>}

\* The lengths written: empty, one byte, one cluster, one byte more,
\* three clusters, and one byte more than the volume holds.
FatLens == {0, 1, cluster_bytes, cluster_bytes + 1, 2 * cluster_bytes + 1,
            total_clusters * cluster_bytes + 1}

\* len bytes of caller data, none of them zero.
FatData(seed, len) == [i \in 1..len |-> ((i * seed) % 250) + 1]

\* A caller writes a file; before is what fat16_read_file gave for the path
\* ahead of the call.
WriteFile(path, seed, len) ==
    /\ fat_writes < MaxFatWrites
    /\ LET w == fat16_write_file(fat, root, cluster_data, path,
                                 FatData(seed, len), len)
       IN  /\ fat' = w.fat
           /\ root' = w.root
           /\ cluster_data' = w.data
           /\ last_write' = [path |-> path, buf |-> FatData(seed, len),
                             len |-> len, ret |-> w.ret,
                             before |-> fat16_read_file(fat, root,
                                            cluster_data, path,
                                            total_clusters * cluster_bytes)]
    /\ fat_writes' = fat_writes + 1
    /\ UNCHANGED walk
    /\ UNCHANGED nonFatVars

FatNext ==
    \E path \in FatPaths, seed \in {1, 7}, len \in FatLens :
        WriteFile(path, seed, len)

(***************************************************************************)
(* The cluster-chain loops of fat16.c, two steps a turn, over a FAT        *)
(* with any content: entries that are free, end a chain, or name any       *)
(* cluster, so that chains may join or run in a circle. A directory        *)
(* cluster is seen by what the scan of its entries finds: the name looked  *)
(* for ("match"), the 0x00 end mark ("end"), or neither ("full").          *)
(***************************************************************************)
WalkClusters == 2..4

WalkFats == [WalkClusters -> {0, FAT_EOC} \cup WalkClusters]

\* Directories with at most one cluster that ends the scan.
WalkDirs ==
    {[c \in WalkClusters |-> IF c = k THEN x ELSE "full"] :
        k \in WalkClusters, x \in {"match", "end", "full"}}

\* File sizes read: within one cluster, two and three clusters.
WalkSizes == {1, cluster_bytes + 1, 3 * cluster_bytes}

\* while (cur >= 2 && cur < 0xFFF8)
InChain(cur) == cur >= 2 /\ cur < FAT_EOC_MIN

\* next == 0 || next >= 0xFFF8: the loop breaks.
ChainEnds(nxt) == nxt = 0 \/ nxt >= FAT_EOC_MIN

Finished(w) == [w EXCEPT !.at = "done"]

\* A walk is entered: directory lookup from a directory's first cluster,
\* the data loop of fat16_read_file, or free_chain.
WalkStart(op, f, dir, start, size) ==
    /\ walk.at = "idle"
    /\ walk' = [op |-> op, at |-> "loop", f |-> f, dir |-> dir,
                cur |-> start, nxt |-> 0, bytes_read |-> 0,
                bytes_to_read |-> size]
    /\ UNCHANGED <<fat, root, cluster_data, fat_writes, last_write>>
    /\ UNCHANGED nonFatVars

\* fat16_find_entry_in_dir_bytes: the loop test and the scan of the
\* cluster's entries.
FindEntryStep ==
    /\ walk.op = "find_entry" /\ walk.at = "loop"
    /\ walk' = IF ~InChain(walk.cur) THEN Finished(walk)
               ELSE IF walk.dir[walk.cur] # "full" THEN Finished(walk)
               ELSE [walk EXCEPT !.at = "link", !.nxt = walk.f[walk.cur]]
    /\ UNCHANGED <<fat, root, cluster_data, fat_writes, last_write>>
    /\ UNCHANGED nonFatVars

\* fat16_read_file: the loop test, the read of the cluster and the copy.
ReadFileStep ==
    /\ walk.op = "read_file" /\ walk.at = "loop"
    /\ LET left == walk.bytes_to_read - walk.bytes_read
           copy == IF left > cluster_bytes THEN cluster_bytes ELSE left
       IN  walk' =
               IF ~(InChain(walk.cur)
                    /\ walk.bytes_read < walk.bytes_to_read)
               THEN Finished(walk)
               ELSE [walk EXCEPT !.bytes_read = @ + copy, !.at = "link",
                                 !.nxt = walk.f[walk.cur]]
    /\ UNCHANGED <<fat, root, cluster_data, fat_writes, last_write>>
    /\ UNCHANGED nonFatVars

\* free_chain: the loop test, the read of the entry and its release.
FreeChainStep ==
    /\ walk.op = "free_chain" /\ walk.at = "loop"
    /\ walk' = IF ~InChain(walk.cur) THEN Finished(walk)
               ELSE [walk EXCEPT !.f[walk.cur] = 0, !.at = "link",
                                 !.nxt = walk.f[walk.cur]]
    /\ UNCHANGED <<fat, root, cluster_data, fat_writes, last_write>>
    /\ UNCHANGED nonFatVars

\* The end of a turn in each of the three loops: break on an entry that
\* ends the chain, else cur = next.
FollowStep ==
    /\ walk.at = "link"
    /\ walk' = IF ChainEnds(walk.nxt) THEN Finished(walk)
               ELSE [walk EXCEPT !.at = "loop", !.cur = walk.nxt]
    /\ UNCHANGED <<fat, root, cluster_data, fat_writes, last_write>>
    /\ UNCHANGED nonFatVars

WalkStep == FindEntryStep \/ ReadFileStep \/ FreeChainStep \/ FollowStep

WalkNext ==
    \/ \E f \in WalkFats, dir \in WalkDirs, start \in WalkClusters :
           WalkStart("find_entry", f, dir, start, 0)
    \/ \E f \in WalkFats, start \in WalkClusters, size \in WalkSizes :
           WalkStart("read_file", f, [c \in WalkClusters |-> "full"], start,
                     size)
    \/ \E f \in WalkFats, start \in WalkClusters :
           WalkStart("free_chain", f, [c \in WalkClusters |-> "full"],
                     start, 0)
    \/ WalkStep

(***************************************************************************)
(* The block cache (fs/block_cache.c) over an ATA drive. The drive is a    *)
(* map from sector to contents; a cache entry holds one block of           *)
(* block_size / 512 sectors. A write transfer fails as a whole when the    *)
(* drive does (disk_ok = FALSE); a read transfer fills the buffer sector   *)
(* by sector and may fail after any number of them.                        *)
(***************************************************************************)
SECTOR_SIZE == 512

\* block_size of the cache: two sectors a block.
block_size == 1024

num_entries == 2

sectors_per_block == block_size \div SECTOR_SIZE

BcBlocks == 0..2

BcSectors == 0..(3 * sectors_per_block - 1)

\* What callers write: blocks that differ in their second sector.
BcData == {<<1, 1>>, <<1, 2>>}

InvalidEntry == [block_num |-> 0, last_used |-> 0, dirty |-> FALSE,
                 valid |-> FALSE, data |-> <<0, 0>>]

\* block_cache_init: every entry invalid, the clock at 0.
NewCache == [entries |-> [i \in 0..(num_entries - 1) |-> InvalidEntry],
             timestamp |-> 0]

\* No cache: before block_cache_init and after block_cache_destroy.
NoCache == [entries |-> <<>>, timestamp |-> 0]

BcInit ==
    /\ bc_disk = [s \in BcSectors |-> 0]
    /\ bc_cache = NewCache
    /\ bc_ops = 0
    /\ bc_seq = [stage |-> 0, b |-> 0, X |-> <<>>]
    /\ bc_last_read = [b |-> 0, ret |-> 0, data |-> <<>>]
    /\ bc_view = [of |-> [b \in BcBlocks |-> <<0, 0>>], reads |-> 0,
                  expect |-> <<>>]

\* find_lru_entry: the first invalid entry, else the first of the entries
\* used longest ago.
RECURSIVE FindLru(_, _, _, _)
FindLru(es, i, lru, oldest_time) ==
    IF i = num_entries THEN lru
    ELSE IF ~es[i].valid THEN i
    ELSE IF oldest_time = NULL \/ es[i].last_used < oldest_time
    THEN FindLru(es, i + 1, i, es[i].last_used)
    ELSE FindLru(es, i + 1, lru, oldest_time)

find_lru_entry(c) == FindLru(c.entries, 0, NULL, NULL)

\* A lookup that takes any valid entry for the block asked.
LookupAnyBlock(es, block_num, i) ==
    IF \E k \in i..(num_entries - 1) : es[k].valid
    THEN CHOOSE k \in i..(num_entries - 1) :
             es[k].valid /\ \A j \in i..(k - 1) : ~es[j].valid
    ELSE NULL

\* The entry that holds block_num, or NULL.
RECURSIVE Lookup(_, _, _)
Lookup(es, block_num, i) ==
    IF i = num_entries THEN NULL
    ELSE IF es[i].valid /\ es[i].block_num = block_num THEN i
    ELSE Lookup(es, block_num, i + 1)

\* read_block_from_disk: the sectors of block_num.
read_block_from_disk(disk, block_num) ==
    [k \in 1..sectors_per_block |->
        disk[block_num * sectors_per_block + (k - 1)]]

\* A write-back that puts every block at sector 0.
write_block_to_disk_first(disk, block_num, buffer) ==
    [s \in DOMAIN disk |->
        IF s \div sectors_per_block = 0
        THEN buffer[(s % sectors_per_block) + 1]
        ELSE disk[s]]

\* write_block_to_disk: buffer goes to the sectors of block_num.
write_block_to_disk(disk, block_num, buffer) ==
    [s \in DOMAIN disk |->
        IF s \div sectors_per_block = block_num
        THEN buffer[(s % sectors_per_block) + 1]
        ELSE disk[s]]

\* ata_read_sectors into buffer: the loop stores sector after sector and
\* returns -1 at the first one the drive does not deliver; done sectors
\* were stored by then.
ata_read_sectors(disk, block_num, buffer, done) ==
    [k \in 1..sectors_per_block |->
        IF k <= done THEN disk[block_num * sectors_per_block + (k - 1)]
        ELSE buffer[k]]

\* block_cache_read(cache, block_num, buffer): cache and drive after the
\* call, the return value and the bytes put in buffer. write_ok: the
\* write-back of a dirty victim succeeds; read_done: the sectors the read
\* of the block delivers (all of them: the read succeeds).
block_cache_read(c, disk, block_num, write_ok, read_done) ==
    LET ts == c.timestamp + 1
        c1 == [c EXCEPT !.timestamp = ts]
        hit == Lookup(c.entries, block_num, 0)
        lru == find_lru_entry(c)
        wb == lru # NULL /\ c.entries[lru].valid /\ c.entries[lru].dirty
        disk1 == IF wb THEN write_block_to_disk(disk,
                               c.entries[lru].block_num, c.entries[lru].data)
                 ELSE disk
    IN  IF hit # NULL
        THEN [cache |-> [c1 EXCEPT !.entries[hit].last_used = ts],
              disk |-> disk, ret |-> 0, data |-> c.entries[hit].data]
        ELSE IF lru = NULL
        THEN [cache |-> c1, disk |-> disk, ret |-> -1, data |-> <<>>]
        ELSE IF wb /\ ~write_ok
        THEN [cache |-> c1, disk |-> disk, ret |-> -1, data |-> <<>>]
        ELSE IF read_done < sectors_per_block
        THEN [cache |-> [c1 EXCEPT !.entries[lru] =
                            [@ EXCEPT !.dirty = IF wb THEN FALSE ELSE @,
                                      !.data = ata_read_sectors(disk1,
                                                   block_num, @, read_done)]],
              disk |-> disk1, ret |-> -1, data |-> <<>>]
        ELSE [cache |-> [c1 EXCEPT !.entries[lru] =
                            [block_num |-> block_num, last_used |-> ts,
                             dirty |-> FALSE, valid |-> TRUE,
                             data |-> read_block_from_disk(disk1,
                                                           block_num)]],
              disk |-> disk1, ret |-> 0,
              data |-> read_block_from_disk(disk1, block_num)]

\* block_cache_write(cache, block_num, buffer).
block_cache_write(c, disk, block_num, buffer, disk_ok) ==
    LET ts == c.timestamp + 1
        c1 == [c EXCEPT !.timestamp = ts]
        hit == Lookup(c.entries, block_num, 0)
        lru == find_lru_entry(c)
        wb == lru # NULL /\ c.entries[lru].valid /\ c.entries[lru].dirty
    IN  IF hit # NULL
        THEN [cache |-> [c1 EXCEPT !.entries[hit] =
                            [@ EXCEPT !.data = buffer, !.last_used = ts,
                                      !.dirty = TRUE]],
              disk |-> disk, ret |-> 0]
        ELSE IF lru = NULL
        THEN [cache |-> c1, disk |-> disk, ret |-> -1]
        ELSE IF wb /\ ~disk_ok
        THEN [cache |-> c1, disk |-> disk, ret |-> -1]
        ELSE [cache |-> [c1 EXCEPT !.entries[lru] =
                            [block_num |-> block_num, last_used |-> ts,
                             dirty |-> TRUE, valid |-> TRUE,
                             data |-> buffer]],
              disk |-> IF wb THEN write_block_to_disk(disk,
                                     c.entries[lru].block_num,
                                     c.entries[lru].data)
                       ELSE disk,
              ret |-> 0]

\* block_cache_flush from entry i on: each dirty entry is written and
\* marked clean.
RECURSIVE FlushFrom(_, _, _)
FlushFrom(c, disk, i) ==
    IF i = num_entries THEN [cache |-> c, disk |-> disk, ret |-> 0]
    ELSE IF c.entries[i].valid /\ c.entries[i].dirty
    THEN FlushFrom([c EXCEPT !.entries[i].dirty = FALSE],
                   write_block_to_disk(disk, c.entries[i].block_num,
                                       c.entries[i].data),
                   i + 1)
    ELSE FlushFrom(c, disk, i + 1)

\* block_cache_flush(cache): with the drive failing, the first dirty entry
\* ends it with -1.
block_cache_flush(c, disk, disk_ok) ==
    IF ~disk_ok /\ \E i \in DOMAIN c.entries :
                       c.entries[i].valid /\ c.entries[i].dirty
    THEN [cache |-> c, disk |-> disk, ret |-> -1]
    ELSE FlushFrom(c, disk, 0)

\* A caller reads a block.
BcReadOp(b, write_ok, read_done) ==
    /\ bc_ops < MaxBcOps
    /\ bc_cache # NoCache
    /\ LET r == block_cache_read(bc_cache, bc_disk, b, write_ok, read_done)
       IN  /\ bc_cache' = r.cache
           /\ bc_disk' = r.disk
           /\ bc_last_read' = [b |-> b, ret |-> r.ret, data |-> r.data]
           /\ bc_seq' = IF bc_seq.stage = 4 /\ b = bc_seq.b
                        THEN [bc_seq EXCEPT
                                !.stage = IF r.ret = 0 THEN 5 ELSE 0]
                        ELSE IF bc_seq.stage = 5
                        THEN [bc_seq EXCEPT !.stage = 0]
                        ELSE bc_seq
    /\ bc_ops' = bc_ops + 1
    /\ UNCHANGED nonBcVars

BcRead(b, write_ok, read_done) ==
    BcReadOp(b, write_ok, read_done) /\ UNCHANGED bc_view

\* A caller writes a block.
BcWriteOp(b, X, disk_ok) ==
    /\ bc_ops < MaxBcOps
    /\ bc_cache # NoCache
    /\ LET r == block_cache_write(bc_cache, bc_disk, b, X, disk_ok)
       IN  /\ bc_cache' = r.cache
           /\ bc_disk' = r.disk
           /\ bc_seq' = IF r.ret = 0 THEN [stage |-> 1, b |-> b, X |-> X]
                        ELSE [bc_seq EXCEPT !.stage = 0]
    /\ bc_ops' = bc_ops + 1
    /\ UNCHANGED bc_last_read
    /\ UNCHANGED nonBcVars

BcWrite(b, X, disk_ok) == BcWriteOp(b, X, disk_ok) /\ UNCHANGED bc_view

\* A caller flushes the cache.
BcFlush(disk_ok) ==
    /\ bc_ops < MaxBcOps
    /\ bc_cache # NoCache
    /\ LET r == block_cache_flush(bc_cache, bc_disk, disk_ok)
       IN  /\ bc_cache' = r.cache
           /\ bc_disk' = r.disk
           /\ bc_seq' = IF r.ret = 0 /\ bc_seq.stage = 1
                        THEN [bc_seq EXCEPT !.stage = 2]
                        ELSE IF r.ret = 0 /\ bc_seq.stage = 2 THEN bc_seq
                        ELSE [bc_seq EXCEPT !.stage = 0]
    /\ bc_ops' = bc_ops + 1
    /\ UNCHANGED <<bc_last_read, bc_view>>
    /\ UNCHANGED nonBcVars

\* block_cache_destroy(cache): a flush whose result is dropped, then the
\* cache is freed.
BcDestroy(disk_ok) ==
    /\ bc_ops < MaxBcOps
    /\ bc_cache # NoCache
    /\ bc_disk' = block_cache_flush(bc_cache, bc_disk, disk_ok).disk
    /\ bc_cache' = NoCache
    /\ bc_seq' = IF bc_seq.stage = 2 THEN [bc_seq EXCEPT !.stage = 3]
                 ELSE [bc_seq EXCEPT !.stage = 0]
    /\ bc_ops' = bc_ops + 1
    /\ UNCHANGED <<bc_last_read, bc_view>>
    /\ UNCHANGED nonBcVars

\* block_cache_init on the same drive, with the same geometry.
BcReinit ==
    /\ bc_ops < MaxBcOps
    /\ bc_cache = NoCache
    /\ bc_cache' = NewCache
    /\ bc_seq' = IF bc_seq.stage = 3 THEN [bc_seq EXCEPT !.stage = 4]
                 ELSE [bc_seq EXCEPT !.stage = 0]
    /\ bc_ops' = bc_ops + 1
    /\ UNCHANGED <<bc_disk, bc_last_read, bc_view>>
    /\ UNCHANGED nonBcVars

\* How a read may go: the write-back fails, or the read delivers some of
\* the sectors, or all of them.
ReadOutcomes ==
    {<<FALSE, sectors_per_block>>}
        \cup {<<TRUE, done>> : done \in 0..sectors_per_block}

BcNext ==
    \/ \E b \in BcBlocks, o \in ReadOutcomes : BcRead(b, o[1], o[2])
    \/ \E b \in BcBlocks, X \in BcData, ok \in BOOLEAN : BcWrite(b, X, ok)
    \/ \E ok \in BOOLEAN : BcFlush(ok)
    \/ \E ok \in BOOLEAN : BcDestroy(ok)
    \/ BcReinit

\* Reads and writes on a drive that serves every transfer, with the
\* contents callers expect of each block kept beside the cache.
BcReadServed(b) ==
    /\ BcReadOp(b, TRUE, sectors_per_block)
    /\ bc_view' = [bc_view EXCEPT !.reads = 1, !.expect = bc_view.of[b]]

BcWriteServed(b, X) ==
    /\ BcWriteOp(b, X, TRUE)
    /\ bc_view' = [bc_view EXCEPT !.of[b] = X]

ServedNext ==
    \/ \E b \in BcBlocks : BcReadServed(b)
    \/ \E b \in BcBlocks, X \in BcData : BcWriteServed(b, X)
    \/ BcFlush(TRUE)

(***************************************************************************)
(* The VFS (kernel/fs/vfs.c): the global handle table, the per-task fd     *)
(* tables, and the active backend seen through get_file_size and           *)
(* read_file. System calls come through an interrupt gate, so a call runs  *)
(* to its end before another task's call. open_files holds the used slots  *)
(* only.                                                                   *)
(***************************************************************************)
MAX_OPEN_FILES == 2048

\* fds of a task: 0..2 are the console, 3..31 are files.
FD_FIRST == 3

FD_LIMIT == 32

FdRange == FD_FIRST..(FD_LIMIT - 1)

\* The tasks that make file calls.
VfsTasks == {1, 2}

\* The volume: two files, and an entry with a size whose start cluster is
\* not valid (fat16_read_file gives -3).
VfsContent ==
    [p \in {"/a.txt", "/b.txt", "/bad"} |->
        CASE p = "/a.txt" -> <<1, 2, 3>>
          [] p = "/b.txt" -> <<4, 5>>
          [] OTHER -> <<9, 9>>]

\* The paths callers open: the files of the volume and a name it lacks.
VfsPaths == DOMAIN VfsContent \cup {"/missing"}

\* A backend that reports every file as empty.
get_file_size_zero(path) == [ret |-> 0, sz |-> 0]

\* backend get_file_size(sb, path, &sz).
get_file_size(path) ==
    IF path \in DOMAIN VfsContent
    THEN [ret |-> 0, sz |-> Len(VfsContent[path])]
    ELSE [ret |-> -2, sz |-> 0]

\* backend read_file(sb, path, buf, len, &out_len).
read_file(path, len) ==
    IF path \notin DOMAIN VfsContent THEN [ret |-> -2, out |-> <<>>]
    ELSE IF path = "/bad" THEN [ret |-> -3, out |-> <<>>]
    ELSE [ret |-> 0,
          out |-> SubSeq(VfsContent[path], 1,
                         IF Len(VfsContent[path]) > len THEN len
                         ELSE Len(VfsContent[path]))]

NoVread == [task |-> 0, fd |-> 0, len |-> 0, ret |-> 0, data |-> <<>>,
            pos |-> 0, path |-> "", backend_err |-> FALSE, size |-> 0]

VfsInit ==
    /\ open_files = <<>>
    /\ fds = [t \in VfsTasks |-> [fd \in FdRange |-> -1]]
    /\ fd_path = [t \in VfsTasks |-> [fd \in FdRange |-> ""]]
    /\ backend_reads = 0
    /\ vfs_ops = 0
    /\ last_open = [task |-> 0, fd |-> -1, path |-> "", reads_before |-> 0,
                    seq |-> 0]
    /\ last_fstat = [task |-> 0, fd |-> -1, ret |-> 0, size |-> 0,
                     after_open |-> FALSE, path |-> "", reads |-> 0,
                     reads_before |-> 0]
    /\ last_vread = NoVread

\* A handle allocation that always takes slot 0.
allocate_global_handle_zero(of) == 0

\* allocate_global_handle: the first slot that is NULL, or -1.
allocate_global_handle(of) ==
    IF \E i \in 0..(MAX_OPEN_FILES - 1) : i \notin DOMAIN of
    THEN CHOOSE i \in 0..(MAX_OPEN_FILES - 1) :
            /\ i \notin DOMAIN of
            /\ \A j \in 0..(i - 1) : j \in DOMAIN of
    ELSE -1

\* vfs_fd_alloc_for_current: the lowest fd from 3 on that is -1.
vfs_fd_alloc_for_current(t) ==
    IF \E fd \in FdRange : fds[t][fd] = -1
    THEN CHOOSE fd \in FdRange :
            /\ fds[t][fd] = -1
            /\ \A j \in FD_FIRST..(fd - 1) : fds[t][j] # -1
    ELSE -1

\* open_files with slot g set to vf.
WithHandle(of, g, vf) ==
    [i \in (DOMAIN of) \cup {g} |-> IF i = g THEN vf ELSE of[i]]

\* open_files with slot g set to NULL.
WithoutHandle(of, g) == [i \in (DOMAIN of) \ {g} |-> of[i]]

\* vfs_open(pathname, flags, mode) by task t, the heap having room for the
\* vfs_file.
VfsOpen(t, path) ==
    /\ vfs_ops < MaxVfsOps
    /\ LET g == allocate_global_handle(open_files)
           gs == get_file_size(path)
           vf == [path |-> path, has_buf |-> FALSE, buf |-> <<>>,
                  buf_size |-> IF gs.ret = 0 /\ gs.sz > 0 THEN gs.sz ELSE 0,
                  offset |-> 0]
           fd == vfs_fd_alloc_for_current(t)
       IN  IF g < 0 \/ fd < 0
           THEN /\ last_open' = [task |-> t, fd |-> -1, path |-> path,
                                 reads_before |-> backend_reads,
                                 seq |-> vfs_ops + 1]
                /\ UNCHANGED <<open_files, fds, fd_path>>
           ELSE /\ open_files' = WithHandle(open_files, g, vf)
                /\ fds' = [fds EXCEPT ![t][fd] = g]
                /\ fd_path' = [fd_path EXCEPT ![t][fd] = path]
                /\ last_open' = [task |-> t, fd |-> fd, path |-> path,
                                 reads_before |-> backend_reads,
                                 seq |-> vfs_ops + 1]
    /\ vfs_ops' = vfs_ops + 1
    /\ UNCHANGED <<backend_reads, last_fstat, last_vread>>
    /\ UNCHANGED nonVfsVars

\* The lazy load of vfs_read: the file after it, the return value when it
\* ends the call (1 when the call goes on), and what the backend did.
LazyLoad(vf, mem_ok) ==
    LET ask == vf.buf_size = 0
        gs == get_file_size(vf.path)
        size1 == IF ask /\ gs.ret = 0 /\ gs.sz > 0 THEN gs.sz
                 ELSE vf.buf_size
        vf1 == [vf EXCEPT !.buf_size = size1]
        rd == read_file(vf.path, size1)
        gs_err == ask /\ gs.ret # 0
    IN  IF vf.has_buf
        THEN [vf |-> vf, ret |-> 1, reads |-> 0, err |-> FALSE]
        ELSE IF size1 = 0
        THEN [vf |-> vf1, ret |-> 1, reads |-> 0, err |-> gs_err]
        ELSE IF ~mem_ok
        THEN [vf |-> vf1, ret |-> -1, reads |-> 0, err |-> gs_err]
        ELSE IF rd.ret # 0
        THEN [vf |-> vf1, ret |-> -1, reads |-> 1, err |-> TRUE]
        ELSE IF Len(rd.out) > size1
        THEN [vf |-> vf1, ret |-> -1, reads |-> 1, err |-> gs_err]
        ELSE [vf |-> [vf1 EXCEPT !.has_buf = TRUE, !.buf = rd.out,
                                 !.buf_size = Len(rd.out)],
              ret |-> 1, reads |-> 1, err |-> gs_err]

\* vfs_read(fd, buf, len) by task t, fd a file.
VfsRead(t, fd, len, mem_ok) ==
    /\ vfs_ops < MaxVfsOps
    /\ LET g == fds[t][fd]
       IN  IF g < 0 \/ g >= MAX_OPEN_FILES \/ g \notin DOMAIN open_files
           THEN /\ last_vread' = [NoVread EXCEPT !.task = t, !.fd = fd,
                                     !.len = len, !.ret = -1]
                /\ UNCHANGED <<open_files, backend_reads>>
           ELSE LET ld == LazyLoad(open_files[g], mem_ok)
                    vf == ld.vf
                    avail == IF vf.buf_size > vf.offset
                             THEN vf.buf_size - vf.offset ELSE 0
                    to_copy == IF len > avail THEN avail ELSE len
                    ret == IF ld.ret < 0 THEN -1
                           ELSE IF ~vf.has_buf THEN 0
                           ELSE to_copy
                IN  /\ open_files' =
                          [open_files EXCEPT ![g] =
                              IF ret > 0
                              THEN [vf EXCEPT !.offset = @ + to_copy]
                              ELSE vf]
                    /\ backend_reads' = backend_reads + ld.reads
                    /\ last_vread' =
                          [task |-> t, fd |-> fd, len |-> len, ret |-> ret,
                           data |-> IF ret > 0
                                    THEN SubSeq(vf.buf, vf.offset + 1,
                                                vf.offset + to_copy)
                                    ELSE <<>>,
                           pos |-> vf.offset, path |-> fd_path[t][fd],
                           backend_err |-> ld.err, size |-> vf.buf_size]
    /\ vfs_ops' = vfs_ops + 1
    /\ UNCHANGED <<fds, fd_path, last_open, last_fstat>>
    /\ UNCHANGED nonVfsVars

\* vfs_close(fd) by task t.
VfsClose(t, fd) ==
    /\ vfs_ops < MaxVfsOps
    /\ IF fds[t][fd] = -1
       THEN UNCHANGED <<open_files, fds, fd_path>>
       ELSE /\ open_files' = WithoutHandle(open_files, fds[t][fd])
            /\ fds' = [fds EXCEPT ![t][fd] = -1]
            /\ fd_path' = [fd_path EXCEPT ![t][fd] = ""]
    /\ vfs_ops' = vfs_ops + 1
    /\ UNCHANGED <<backend_reads, last_open, last_fstat, last_vread>>
    /\ UNCHANGED nonVfsVars

\* vfs_fstat(fd, buf) by task t, fd a file: st_size is the cached size.
VfsFstat(t, fd) ==
    /\ vfs_ops < MaxVfsOps
    /\ LET g == fds[t][fd]
           ok == g >= 0 /\ g < MAX_OPEN_FILES /\ g \in DOMAIN open_files
       IN  last_fstat' =
              [task |-> t, fd |-> fd, ret |-> IF ok THEN 0 ELSE -1,
               size |-> IF ok THEN open_files[g].buf_size ELSE 0,
               after_open |-> last_open.task = t /\ last_open.fd = fd
                                /\ last_open.seq = vfs_ops,
               path |-> last_open.path, reads |-> backend_reads,
               reads_before |-> last_open.reads_before]
    /\ vfs_ops' = vfs_ops + 1
    /\ UNCHANGED <<open_files, fds, fd_path, backend_reads, last_open,
                   last_vread>>
    /\ UNCHANGED nonVfsVars

\* vfs_lseek(fd, offset, whence) by task t, fd a file. The result is cut
\* to 32 bits; the calls made here stay within them (newoff >= 0).
vfs_lseek(vf, offset, whence) ==
    IF whence = 0 THEN [ret |-> 0, vf |-> [vf EXCEPT !.offset = offset]]
    ELSE IF whence = 1
    THEN [ret |-> 0, vf |-> [vf EXCEPT !.offset = vf.offset + offset]]
    ELSE IF whence = 2
    THEN [ret |-> 0, vf |-> [vf EXCEPT !.offset = vf.buf_size + offset]]
    ELSE [ret |-> -1, vf |-> vf]

VfsLseek(t, fd, offset, whence) ==
    /\ vfs_ops < MaxVfsOps
    /\ LET g == fds[t][fd]
       IN  IF g < 0 \/ g >= MAX_OPEN_FILES \/ g \notin DOMAIN open_files
           THEN UNCHANGED open_files
           ELSE /\ vfs_lseek(open_files[g], offset, whence).vf.offset >= 0
                /\ open_files' =
                      [open_files EXCEPT
                          ![g] = vfs_lseek(@, offset, whence).vf]
    /\ vfs_ops' = vfs_ops + 1
    /\ UNCHANGED <<fds, fd_path, backend_reads, last_open, last_fstat,
                   last_vread>>
    /\ UNCHANGED nonVfsVars

\* vfs_write(fd, buf, len) by task t, fd a file: the backend overwrites the
\* file, and on success the handle caches buf and stands at its end. The
\* caller writes back the bytes the file has, so the volume stays as it is;
\* for a path that is not a regular file of the volume the backend fails.
vfs_write(vf, buf, r) ==
    IF r = 0
    THEN [ret |-> Len(buf),
          vf |-> [vf EXCEPT !.has_buf = TRUE, !.buf = buf,
                            !.buf_size = Len(buf), !.offset = Len(buf)]]
    ELSE [ret |-> -1, vf |-> vf]

VfsWrite(t, fd, backend_ok) ==
    /\ vfs_ops < MaxVfsOps
    /\ LET g == fds[t][fd]
       IN  IF g < 0 \/ g >= MAX_OPEN_FILES \/ g \notin DOMAIN open_files
           THEN UNCHANGED open_files
           ELSE LET vf == open_files[g]
                    r == IF backend_ok /\ read_file(vf.path, 0).ret = 0
                         THEN 0 ELSE -1
                    buf == IF r = 0 THEN VfsContent[vf.path] ELSE <<>>
                IN  open_files' =
                        [open_files EXCEPT ![g] = vfs_write(vf, buf, r).vf]
    /\ vfs_ops' = vfs_ops + 1
    /\ UNCHANGED <<fds, fd_path, backend_reads, last_open, last_fstat,
                   last_vread>>
    /\ UNCHANGED nonVfsVars

\* The seeks made: to an absolute position, relative to the position, and
\* relative to the end; 3 is no whence.
SeekArgs == {<<4, 0>>, <<1, 1>>, <<-1, 1>>, <<0, 2>>, <<1, 2>>, <<0, 3>>}

VfsNext ==
    \/ \E t \in VfsTasks, path \in VfsPaths : VfsOpen(t, path)
    \/ \E t \in VfsTasks, len \in {0, 2}, mem_ok \in BOOLEAN :
          (len > 0 \/ mem_ok) /\ VfsRead(t, FD_FIRST, len, mem_ok)
    \/ \E t \in VfsTasks : VfsClose(t, FD_FIRST)
    \/ \E t \in VfsTasks : VfsFstat(t, FD_FIRST)

\* The file calls with vfs_lseek and vfs_write among them.
SeekNext ==
    \/ \E t \in VfsTasks, path \in VfsPaths : VfsOpen(t, path)
    \/ \E t \in VfsTasks, len \in {0, 2}, mem_ok \in BOOLEAN :
          (len > 0 \/ mem_ok) /\ VfsRead(t, FD_FIRST, len, mem_ok)
    \/ \E t \in VfsTasks : VfsClose(t, FD_FIRST)
    \/ \E t \in VfsTasks : VfsFstat(t, FD_FIRST)
    \/ \E t \in VfsTasks, a \in SeekArgs : VfsLseek(t, FD_FIRST, a[1], a[2])
    \/ \E t \in VfsTasks, ok \in BOOLEAN : VfsWrite(t, FD_FIRST, ok)

(***************************************************************************)
(* The program break: sys_sbrk (kernel/syscall.c) and the _sbrk of the     *)
(* user library (user/syscall.c). Addresses and sizes are in KiB, of which *)
(* every quantity here is a multiple; -1 stands for (uint64_t)-1. A task   *)
(* is named by its PML4. Frames come from the allocator in ascending       *)
(* order, up to the end of the memory map.                                 *)
(***************************************************************************)
\* 0x40000000 bytes, in KiB
USER_HEAP_BASE == 1048576

\* 0x1000 bytes, in KiB
PAGE_SIZE == 4

PageUp(a) == ((a + PAGE_SIZE - 1) \div PAGE_SIZE) * PAGE_SIZE

\* The first frame number past the memory map.
FrameLimit == memmap.end_addr \div FRAME_SIZE

\* user_brk and user_brk_size of task t: 0 from task creation on.
BrkOf(ub, t) == IF t \in DOMAIN ub THEN ub[t] ELSE [brk |-> 0, size |-> 0]

WithBrk(ub, t, b) == [x \in (DOMAIN ub) \cup {t} |-> IF x = t THEN b ELSE ub[x]]

SbrkInit ==
    /\ user_brk = <<>>
    /\ frame_zeroed = {}
    /\ sbrk_calls = 0
    /\ lib_history = <<>>

\* The mapping loop of sys_sbrk: frames first_frame.. go to the pages from
\* vpn on, P|RW|USER; at the first map_page_64 that fails the loop stops.
\* SbrkMapped continues after the map_page_64 whose result is r.
RECURSIVE SbrkMapLoop(_, _, _, _, _, _)
RECURSIVE SbrkMapped(_, _, _, _, _)
SbrkMapped(r, pml4, first_frame, vpn, pages) ==
    IF r.ret # 0 THEN [mem |-> r.mem, nf |-> r.nf, failed |-> TRUE]
    ELSE SbrkMapLoop(r.mem, r.nf, pml4, first_frame + 1, vpn + 1, pages - 1)

\* The frames left for the page tables map_page_64 may need, at most 3.
TableRoom(room) == IF room > 3 THEN 3 ELSE IF room < 0 THEN 0 ELSE room

SbrkMapLoop(mem, nf, pml4, first_frame, vpn, pages) ==
    IF pages = 0 THEN [mem |-> mem, nf |-> nf, failed |-> FALSE]
    ELSE SbrkMapped(MapPage64(mem, nf, pml4, first_frame, vpn,
                              PAGING_PRESENT + PAGING_RW + PAGING_USER,
                              TableRoom(FrameLimit - nf)),
                    pml4, first_frame, vpn, pages)

\* The end of sys_sbrk, m being the outcome of the mapping loop.
SbrkDone(m, ub, zeroed, t, b, nf, pages, current_brk, new_end) ==
    IF m.failed
    THEN [ret |-> -1, ub |-> WithBrk(ub, t, b), mem |-> m.mem, nf |-> m.nf,
          zeroed |-> zeroed]
    ELSE [ret |-> current_brk, mem |-> m.mem, nf |-> m.nf,
          zeroed |-> zeroed \cup (nf..(nf + pages - 1)),
          ub |-> WithBrk(ub, t, [b EXCEPT !.size = new_end - b.brk])]

\* sys_sbrk from the page arithmetic on: b is the break of the task,
\* first_new_page and pages the pages to add.
SbrkGrow(ub, mem, nf, zeroed, t, inc, kmalloc_ok, b, first_new_page, pages) ==
    IF pages = 0
    THEN [ret |-> b.brk + b.size, mem |-> mem, nf |-> nf, zeroed |-> zeroed,
          ub |-> WithBrk(ub, t, [b EXCEPT !.size = @ + inc])]
    ELSE IF ~kmalloc_ok \/ nf + pages > FrameLimit
    THEN [ret |-> -1, ub |-> WithBrk(ub, t, b), mem |-> mem, nf |-> nf,
          zeroed |-> zeroed]
    ELSE SbrkDone(SbrkMapLoop(mem, nf + pages, t, nf,
                              first_new_page \div PAGE_SIZE, pages),
                  ub, zeroed, t, b, nf, pages, b.brk + b.size,
                  b.brk + b.size + inc)

\* The first page sys_sbrk adds when the break is current_brk.
FirstNewPage(current_brk, size) ==
    IF current_brk % PAGE_SIZE = 0 /\ size > 0 THEN current_brk
    ELSE PageUp(current_brk)

PagesBetween(first_new_page, new_page_end) ==
    IF new_page_end > first_new_page
    THEN (new_page_end - first_new_page) \div PAGE_SIZE ELSE 0

\* sys_sbrk once the break b of the task is initialised.
SbrkFrom(ub, mem, nf, zeroed, t, inc, kmalloc_ok, b) ==
    IF inc = 0
    THEN [ret |-> b.brk + b.size, ub |-> WithBrk(ub, t, b), mem |-> mem,
          nf |-> nf, zeroed |-> zeroed]
    ELSE IF inc < 0
    THEN [ret |-> -1, ub |-> WithBrk(ub, t, b), mem |-> mem, nf |-> nf,
          zeroed |-> zeroed]
    ELSE SbrkGrow(ub, mem, nf, zeroed, t, inc, kmalloc_ok, b,
                  FirstNewPage(b.brk + b.size, b.size),
                  PagesBetween(FirstNewPage(b.brk + b.size, b.size),
                               PageUp(b.brk + b.size + inc)))

\* The break of a task at its first sys_sbrk.
InitialBrk(b0) == IF b0.brk = 0 THEN [brk |-> USER_HEAP_BASE, size |-> 0] ELSE b0

\* sys_sbrk(inc) for task t: the break, the page tables, the allocator and
\* the zeroed frames after the call, and the return value.
sys_sbrk(ub, mem, nf, zeroed, t, inc, kmalloc_ok) ==
    SbrkFrom(ub, mem, nf, zeroed, t, inc, kmalloc_ok,
             InitialBrk(BrkOf(ub, t)))

\* The return of _sbrk: c is the outcome of its first system call, n of its
\* second.
LibReturn(c, n) == IF n.ret = -1 THEN n ELSE [n EXCEPT !.ret = c.ret]

\* The second system call of _sbrk, after the first gave c.
LibSecond(c, t, increment, kmalloc_ok) ==
    IF c.ret = -1 THEN c
    ELSE LibReturn(c, sys_sbrk(c.ub, c.mem, c.nf, c.zeroed, t,
                               c.ret + increment, kmalloc_ok))

\* _sbrk(increment) of the user library: system call 12 with argument 0,
\* then system call 12 with the break it got plus increment.
lib_sbrk(ub, mem, nf, zeroed, t, increment, kmalloc_ok) ==
    LibSecond(sys_sbrk(ub, mem, nf, zeroed, t, 0, kmalloc_ok), t, increment,
              kmalloc_ok)

\* The increments programs ask for: none, 1 KiB, 8192 bytes.
SbrkIncrements == {0, 1, 8}

\* The history of task t with one more call.
Recorded(h, t, call) ==
    [x \in (DOMAIN h) \cup {t} |->
        (IF x \in DOMAIN h THEN h[x] ELSE <<>>)
        \o (IF x = t THEN <<call>> ELSE <<>>)]

\* The state after an sbrk call of task t whose outcome is r.
SbrkCommit(t, lib, inc, r) ==
    /\ user_brk' = r.ub
    /\ pt_mem' = r.mem
    /\ next_table_frame' = r.nf
    /\ frame_zeroed' = r.zeroed
    /\ lib_history' = Recorded(lib_history, t,
                               [lib |-> lib, inc |-> inc, ret |-> r.ret])
    /\ sbrk_calls' = sbrk_calls + 1
    /\ UNCHANGED <<kernel_pml4_phys, user_pml4s, map_calls, last_map>>
    /\ UNCHANGED nonSbrkPagingVars

\* A task makes system call 12 with the increment in the first argument.
SysSbrk(t, inc, kmalloc_ok) ==
    /\ sbrk_calls < MaxSbrkCalls
    /\ t \in user_pml4s
    /\ SbrkCommit(t, FALSE, inc,
                  sys_sbrk(user_brk, pt_mem, next_table_frame, frame_zeroed,
                           t, inc, kmalloc_ok))

\* A user program calls sbrk(increment) of the library.
LibSbrk(t, increment, kmalloc_ok) ==
    /\ sbrk_calls < MaxSbrkCalls
    /\ t \in user_pml4s
    /\ SbrkCommit(t, TRUE, increment,
                  lib_sbrk(user_brk, pt_mem, next_table_frame, frame_zeroed,
                           t, increment, kmalloc_ok))

SbrkNext ==
    \/ CreateUserPml4
    \/ \E t \in user_pml4s, inc \in SbrkIncrements, ok \in BOOLEAN :
          SysSbrk(t, inc, ok)
    \/ \E t \in user_pml4s, inc \in SbrkIncrements, ok \in BOOLEAN :
          LibSbrk(t, inc, ok)

(***************************************************************************)
(* System call entry by int 0x80: isr128 with PUSH_ALL and POP_ALL         *)
(* (interrupt/irq_stubs.asm) and syscall_entry_c (kernel/syscall.c).       *)
(***************************************************************************)
SYS_getpid == 39

SYS_kill == 62

\* The registers in the order PUSH_ALL pushes them.
PushOrder == <<"rax", "rcx", "rdx", "rbx", "rbp", "rsi", "rdi", "r8", "r9",
               "r10", "r11", "r12", "r13", "r14", "r15">>

\* The registers in the order POP_ALL pops them.
PopOrder == <<"r15", "r14", "r13", "r12", "r11", "r10", "r9", "r8", "rdi",
              "rsi", "rbp", "rbx", "rdx", "rcx", "rax">>

RegNames == {PushOrder[k] : k \in 1..Len(PushOrder)}

\* PUSH_ALL: the stack grows down, so the k-th of the 15 pushes ends 15 - k
\* quadwords above rsp. The frame is indexed as isr128 hands it on in rdi:
\* frame[i] is regs_stack[i], the quadword at rsp + 8 * i.
PUSH_ALL(regs) == [i \in 0..(Len(PushOrder) - 1) |->
                      regs[PushOrder[Len(PushOrder) - i]]]

\* POP_ALL: the k-th pop reads the quadword k - 1 above the rsp isr128 had
\* after PUSH_ALL.
POP_ALL(frame) ==
    [r \in RegNames |->
        frame[(CHOOSE k \in 1..Len(PopOrder) : PopOrder[k] = r) - 1]]

\* dispatch_syscall, for the calls that change nothing: getpid, kill and an
\* unknown number. -1 stands for (uint64_t)-1.
dispatch_syscall(num, a0, a1, a2, a3, a4, a5, tid) ==
    IF num = SYS_getpid THEN tid
    ELSE IF num = SYS_kill THEN 0
    ELSE -1

\* What syscall_entry_c takes from regs_stack: the number and the six
\* arguments, by the indices it reads them at.
EntryCall(regs_stack) ==
    [num |-> regs_stack[0],
     a0 |-> regs_stack[6],
     a1 |-> regs_stack[5],
     a2 |-> regs_stack[2],
     a3 |-> regs_stack[9],
     a4 |-> regs_stack[7],
     a5 |-> regs_stack[8]]

\* The result syscall_entry_c gets for the call c.
EntryRet(c, tid) ==
    dispatch_syscall(c.num, c.a0, c.a1, c.a2, c.a3, c.a4, c.a5, tid)

\* syscall_entry_c: regs_stack after the call.
syscall_entry_c(regs_stack, tid) ==
    [regs_stack EXCEPT ![0] = EntryRet(EntryCall(regs_stack), tid)]

\* isr128: PUSH_ALL, syscall_entry_c on the frame, POP_ALL, iretq.
isr128(regs, tid) == POP_ALL(syscall_entry_c(PUSH_ALL(regs), tid))

\* The registers of a program about to make a system call: every register
\* holds a value of its own, the number is in rax, and rdi, rsi, rdx, r9 and
\* r15 vary.
UserRegs ==
    {[rax |-> n, rcx |-> 101, rdx |-> x, rbx |-> 103, rbp |-> 104,
      rsi |-> s, rdi |-> d, r8 |-> 108, r9 |-> g, r10 |-> 110,
      r11 |-> 111, r12 |-> 112, r13 |-> 113, r14 |-> 114, r15 |-> f] :
        n \in {SYS_getpid, SYS_kill, 7}, s \in {105, 2}, d \in {106, 1},
        x \in {102, 3}, g \in {109, 4}, f \in {115, SYS_getpid}}

TcbFields == RegNames \cup {"rip", "rsp", "rflags"}

SysInit ==
    /\ cpu_regs = [r \in RegNames |-> 0]
    /\ last_int80 = [valid |-> FALSE]
    /\ int80_calls = 0
    /\ last_syscall = [valid |-> FALSE]
    /\ tcb_regs = [r \in TcbFields |-> 0]
    /\ last_timer = [valid |-> FALSE]
    /\ last_stub = [stub |-> "none", calls |-> <<>>]

\* The current task executes int 0x80 with the registers regs.
Int80(regs) ==
    /\ int80_calls < MaxInt80
    /\ cpu_regs' = isr128(regs, current_task)
    /\ last_int80' = [valid |-> TRUE, before |-> regs,
                      frame |-> PUSH_ALL(regs),
                      call |-> EntryCall(PUSH_ALL(regs)),
                      ret |-> EntryRet(EntryCall(PUSH_ALL(regs)),
                                       current_task)]
    /\ int80_calls' = int80_calls + 1
    /\ UNCHANGED <<last_syscall, tcb_regs, last_timer, last_stub>>
    /\ UNCHANGED nonSysVars

(***************************************************************************)
(* System call entry by the syscall instruction: syscall_handler           *)
(* (kernel/shell/shell.c). The instruction leaves the return address in    *)
(* rcx and the flags in r11; the stub moves the user rsp to r15, pushes    *)
(* rsp, r11 and rcx for sysret and then the ten-quadword frame it hands to *)
(* syscall_entry_c.                                                        *)
(***************************************************************************)
\* The registers in the order syscall_handler pushes the frame.
SyscallPushOrder == <<"r10", "r9", "r8", "rdi", "rsi", "rbp", "rbx", "rdx",
                      "rcx", "rax">>

\* The syscall instruction: rcx = rip, r11 = rflags.
syscall_insn(regs, rip, rflags) == [regs EXCEPT !.rcx = rip, !.r11 = rflags]

\* The frame at rsp when syscall_handler calls syscall_entry_c.
SyscallFrame(regs) ==
    [i \in 0..(Len(SyscallPushOrder) - 1) |->
        regs[SyscallPushOrder[Len(SyscallPushOrder) - i]]]

\* syscall_handler: the frame, syscall_entry_c on it, pop rax, the rest of
\* the frame skipped, rcx and r11 popped for sysret; r15 keeps the user rsp.
syscall_handler(regs, rsp, tid) ==
    [regs EXCEPT !.rax = syscall_entry_c(SyscallFrame(regs), tid)[0],
                 !.r15 = rsp]

UserRips == {200, 201}

UserRflags == {514, 582}

UserRsps == {4096, 4104}

\* The current task executes the syscall instruction with the registers regs.
Syscall(regs, rip, rflags, rsp) ==
    /\ int80_calls < MaxInt80
    /\ cpu_regs' = syscall_handler(syscall_insn(regs, rip, rflags), rsp,
                                   current_task)
    /\ last_syscall' = [valid |-> TRUE, before |-> regs,
                        frame |-> SyscallFrame(syscall_insn(regs, rip,
                                                            rflags))]
    /\ int80_calls' = int80_calls + 1
    /\ UNCHANGED <<last_int80, tcb_regs, last_timer, last_stub>>
    /\ UNCHANGED nonSysVars

SysNext ==
    \/ \E regs \in UserRegs : Int80(regs)
    \/ \E regs \in UserRegs, rip \in UserRips :
          Syscall(regs, rip, 514, 4096)

(***************************************************************************)
(* The system-call stubs of the user library (user/syscall.c) against the  *)
(* switch of dispatch_syscall (kernel/syscall.c). A stub loads the number  *)
(* and the arguments into rax, rdi, rsi, rdx, r10, r8 and r9 and executes  *)
(* syscall; the kernel takes them from the frame of syscall_handler.       *)
(***************************************************************************)
SYS_read == 0

SYS_write == 1

SYS_open == 2

SYS_close == 3

SYS_fstat == 5

SYS_lseek == 8

SYS_sbrk == 12

SYS_exit == 60

SYS_isatty == 100

SYS_arch_prctl == 158

SYS_get_reent == 200

\* The enum of user/syscall.c.
UserSYS == [read |-> 0, write |-> 1, open |-> 2, close |-> 3, fstat |-> 5,
            lseek |-> 8, brk |-> 12, getpid |-> 39, kill |-> 62,
            exit |-> 60]

\* What the handler the switch selects does with the arguments: the
\* function called and the values it is called with.
Handler(c) ==
    CASE c.num = SYS_write -> [fn |-> "write", args |-> <<c.a0, c.a1, c.a2>>]
      [] c.num = SYS_read -> [fn |-> "read", args |-> <<c.a0, c.a1, c.a2>>]
      [] c.num = SYS_close -> [fn |-> "close", args |-> <<c.a0>>]
      [] c.num = SYS_open -> [fn |-> "open", args |-> <<c.a0, c.a1, c.a2>>]
      [] c.num = SYS_lseek -> [fn |-> "lseek", args |-> <<c.a0, c.a1, c.a2>>]
      [] c.num = SYS_isatty -> [fn |-> "isatty", args |-> <<c.a0>>]
      [] c.num = SYS_fstat -> [fn |-> "fstat", args |-> <<c.a0, c.a1>>]
      [] c.num = SYS_exit -> [fn |-> "exit", args |-> <<c.a0>>]
      [] c.num = SYS_sbrk -> [fn |-> "sbrk", args |-> <<c.a0>>]
      [] c.num = SYS_get_reent -> [fn |-> "get_reent", args |-> <<c.a0>>]
      [] c.num = SYS_getpid -> [fn |-> "getpid", args |-> <<>>]
      [] c.num = SYS_kill -> [fn |-> "kill", args |-> <<c.a0, c.a1>>]
      [] c.num = SYS_arch_prctl -> [fn |-> "arch_prctl",
                                    args |-> <<c.a0, c.a1>>]
      [] OTHER -> [fn |-> "ENOSYS", args |-> <<>>]

\* syscall6(n, a1, a2, a3, 0, 0, 0): the registers at the instruction.
syscall6(n, a1, a2, a3) ==
    [r \in RegNames |->
        IF r = "rax" THEN n ELSE IF r = "rdi" THEN a1
        ELSE IF r = "rsi" THEN a2 ELSE IF r = "rdx" THEN a3 ELSE 0]

\* One system call of a stub: the registers, and the operation the library
\* function is placing.
Placed(n, a1, a2, a3, fn, args) ==
    [regs |-> syscall6(n, a1, a2, a3), wanted |-> [fn |-> fn, args |-> args]]

\* The system calls a library function places for the arguments x, y, z;
\* cur is what the first call of _sbrk returned, the current break.
Stub(stub, x, y, z, cur) ==
    CASE stub = "write" ->
             <<Placed(UserSYS.write, x, y, z, "write", <<x, y, z>>)>>
      [] stub = "read" ->
             <<Placed(UserSYS.read, x, y, z, "read", <<x, y, z>>)>>
      [] stub = "close" -> <<Placed(UserSYS.close, x, 0, 0, "close", <<x>>)>>
      [] stub = "lseek" ->
             <<Placed(UserSYS.lseek, x, y, z, "lseek", <<x, y, z>>)>>
      [] stub = "open" ->
             <<Placed(UserSYS.open, x, y, 0, "open", <<x, y, 0>>)>>
      [] stub = "fstat" ->
             IF y # 0 /\ (x = 1 \/ x = 2)
             THEN <<Placed(UserSYS.fstat, x, y, 0, "fstat", <<x, y>>)>>
             ELSE <<>>
      [] stub = "getpid" ->
             <<Placed(UserSYS.getpid, 0, 0, 0, "getpid", <<>>)>>
      [] stub = "kill" ->
             <<Placed(UserSYS.kill, x, y, 0, "kill", <<x, y>>)>>
      [] stub = "_exit" -> <<Placed(UserSYS.exit, x, 0, 0, "exit", <<x>>)>>
      [] stub = "_sbrk" ->
             <<Placed(UserSYS.brk, 0, 0, 0, "sbrk", <<0>>),
               Placed(UserSYS.brk, cur + x, 0, 0, "sbrk", <<x>>)>>

Stubs == {"write", "read", "close", "lseek", "open", "fstat", "getpid",
          "kill", "_exit", "_sbrk"}

\* First arguments: descriptors, a status, a pid, or an increment in KiB.
StubFirst == {0, 1, 2, 3, 8}

\* Second arguments: a null or a user pointer, an offset, a signal.
StubSecond == {0, 300}

StubThird == {0, 1, 2}

\* The break a task may have: fresh, or after 8 KiB were added.
StubBreaks == {USER_HEAP_BASE, USER_HEAP_BASE + 8}

\* A program calls a library function: each system call it places enters
\* by syscall_handler and is taken from the frame by syscall_entry_c.
LibCall(stub, x, y, z, cur) ==
    /\ last_stub' =
           [stub |-> stub,
            calls |-> [i \in 1..Len(Stub(stub, x, y, z, cur)) |->
                [wanted |-> Stub(stub, x, y, z, cur)[i].wanted,
                 got |-> Handler(EntryCall(SyscallFrame(syscall_insn(
                            Stub(stub, x, y, z, cur)[i].regs, 200,
                            514))))]]]
    /\ UNCHANGED <<cpu_regs, last_int80, int80_calls, last_syscall,
                   tcb_regs, last_timer>>
    /\ UNCHANGED nonSysVars

StubNext ==
    \E stub \in Stubs, x \in StubFirst, y \in StubSecond, z \in StubThird,
       cur \in StubBreaks :
        LibCall(stub, x, y, z, cur)

(***************************************************************************)
(* The register save of the timer preempt path: isr48 (PUSH_ALL on top of  *)
(* the frame the CPU pushed) and irq_timer_entry (interrupt/irq_timer.c).  *)
(***************************************************************************)
KERNEL_CS == 8

USER_CS == 27

\* Top of the kernel stack the CPU switches to on an interrupt from user
\* mode (TSS.rsp0).
Rsp0 == 65536

\* In 64-bit mode the CPU aligns the stack to 16 bytes and pushes SS, RSP,
\* RFLAGS, CS and RIP; rsp is the stack the frame goes on.
AlignDown16(a) == (a \div 16) * 16

\* rsp after the CPU's five pushes and the fifteen of PUSH_ALL: the
\* regs_stack pointer isr48 passes on.
RegsStackAddr(rsp, user) ==
    AlignDown16(IF user THEN Rsp0 ELSE rsp) - 8 * (5 + Len(PushOrder))

\* regs_stack[0..19] at the call of irq_timer_entry.
Isr48Frame(regs, rip, rflags, rsp, user) ==
    [i \in 0..(Len(PushOrder) + 4) |->
        IF i < Len(PushOrder) THEN PUSH_ALL(regs)[i]
        ELSE <<rip, IF user THEN USER_CS ELSE KERNEL_CS, rflags, rsp,
               IF user THEN USER_CS + 8 ELSE 0>>[i - Len(PushOrder) + 1]]

\* irq_timer_entry: t->regs from regs_stack, which lies at address addr.
irq_timer_entry(regs_stack, addr) ==
    [rax |-> regs_stack[0], rcx |-> regs_stack[1], rdx |-> regs_stack[2],
     rbx |-> regs_stack[3], rbp |-> regs_stack[4], rsi |-> regs_stack[5],
     rdi |-> regs_stack[6], r8 |-> regs_stack[7], r9 |-> regs_stack[8],
     r10 |-> regs_stack[9], r11 |-> regs_stack[10], r12 |-> regs_stack[11],
     r13 |-> regs_stack[12], r14 |-> regs_stack[13], r15 |-> regs_stack[14],
     rip |-> regs_stack[15], rflags |-> regs_stack[17],
     rsp |-> addr + (15 + 3) * 8]

\* Vector 48 arrives while the current task runs with the registers regs.
TimerSave(regs, rip, rflags, rsp, user) ==
    /\ tcb_regs' = irq_timer_entry(Isr48Frame(regs, rip, rflags, rsp, user),
                                   RegsStackAddr(rsp, user))
    /\ last_timer' = [valid |-> TRUE, regs |-> regs, rip |-> rip,
                      rflags |-> rflags, rsp |-> rsp, user |-> user]
    /\ UNCHANGED <<cpu_regs, last_int80, int80_calls, last_syscall,
                   last_stub>>
    /\ UNCHANGED nonSysVars

\* The interrupted registers: rax, rdi and r15 vary.
SavedRegs == {r \in UserRegs : r.rsi = 105 /\ r.rdx = 102 /\ r.r9 = 109}

SaveNext ==
    \E regs \in SavedRegs, rip \in UserRips, rflags \in UserRflags,
       rsp \in UserRsps, user \in BOOLEAN :
        TimerSave(regs, rip, rflags, rsp, user)

(***************************************************************************)
(* The task table and the ELF loader: task_create, task_exit and elf_run   *)
(* with load_segment (kernel/task/elf.c). Frames come from the allocator   *)
(* in ascending order; no path of the loader or of the task code gives a   *)
(* frame back.                                                             *)
(***************************************************************************)
MAX_TASKS == 64

\* The slots task_create searches: tasks[0] is the idle task.
TaskSlots == 1..(MAX_TASKS - 1)

\* tasks[slot] == NULL
NoTcb == [tid |-> NULL, state |-> "None", kernel_mode |-> FALSE,
          page_directory |-> 0, frames |-> {}]

LoaderInit ==
    /\ tasks = [s \in TaskSlots |-> NoTcb]
    /\ created = 0
    /\ last_create = [ret |-> 0, others_dead |-> FALSE]
    /\ last_elf = [ret |-> 0, slot |-> NULL, map_failed |-> FALSE]
    /\ elf_runs = 0
    /\ in_user = NULL

\* The slot search of task_create: the first slot that is NULL, or -1.
FreeSlot(tk) ==
    IF \E s \in TaskSlots : tk[s] = NoTcb
    THEN CHOOSE s \in TaskSlots :
             tk[s] = NoTcb /\ \A x \in TaskSlots : x < s => tk[x] # NoTcb
    ELSE NULL

\* The PML4 paging64_create_user_pml4 builds from the kernel's.
NewUserPml4(kernel_pml4) ==
    [EmptyTable EXCEPT
        !.ent = [i \in {x \in DOMAIN kernel_pml4.ent : x = 0 \/ x >= 256} |->
                    kernel_pml4.ent[i]]]

\* The TCB task_create fills in at slot, its frames taken from nf on: the
\* task structure and the kernel stack, and for a user task the PML4 and
\* the user stack.
NewTcb(tid, nf, kernel_mode, kpml4) ==
    [tid |-> tid, state |-> "Ready", kernel_mode |-> kernel_mode,
     page_directory |-> IF kernel_mode THEN kpml4 ELSE nf + 2,
     frames |-> IF kernel_mode THEN nf..(nf + 1) ELSE nf..(nf + 3)]

\* task_create once the free slot is known.
TaskCreateAt(slot, tk, mem, nf, ntid, kernel_mode, kpml4) ==
    IF slot = NULL
    THEN [slot |-> NULL, tk |-> tk, mem |-> mem, nf |-> nf, ntid |-> ntid]
    ELSE [slot |-> slot,
          tk |-> [tk EXCEPT ![slot] = NewTcb(ntid + 1, nf, kernel_mode, kpml4)],
          mem |-> IF kernel_mode THEN mem
                  ELSE WithTable(mem, nf + 2, NewUserPml4(mem[kpml4])),
          nf |-> IF kernel_mode THEN nf + 2 ELSE nf + 4,
          ntid |-> ntid + 1]

\* task_create(entry, name, kernel_mode): the table, the page tables, the
\* allocator and the tid counter after the call, and the slot of the new
\* task, NULL when no slot is free.
task_create(tk, mem, nf, ntid, kernel_mode, kpml4) ==
    TaskCreateAt(FreeSlot(tk), tk, mem, nf, ntid, kernel_mode, kpml4)

\* The shell creates a kernel task.
TaskCreateOp(c) ==
    /\ tasks' = c.tk
    /\ created' = c.ntid
    /\ next_table_frame' = c.nf
    /\ pt_mem' = c.mem
    /\ last_create' = [ret |-> c.slot,
                       others_dead |->
                           \A s \in TaskSlots :
                               tasks[s] = NoTcb \/ tasks[s].state = "Dead"]
    /\ UNCHANGED <<last_elf, elf_runs, in_user>>
    /\ UNCHANGED <<kernel_pml4_phys, user_pml4s, map_calls, last_map>>
    /\ UNCHANGED nonLoaderPagingVars

TaskCreateKernel ==
    /\ next_table_frame + 2 <= FrameLimit
    /\ \A s \in TaskSlots : tasks[s] = NoTcb \/ tasks[s].state = "Dead"
    /\ TaskCreateOp(task_create(tasks, pt_mem, next_table_frame, created,
                                TRUE, kernel_pml4_phys))

\* The task of slot s is made ready, runs and calls task_exit: its state
\* becomes Dead and the scheduler leaves it for good.
TaskExitOf(s) ==
    /\ tasks[s] # NoTcb /\ tasks[s].state = "Ready"
    /\ tasks' = [tasks EXCEPT ![s].state = "Dead"]
    /\ UNCHANGED <<created, last_create, last_elf, elf_runs, in_user>>
    /\ UNCHANGED pagingVars
    /\ UNCHANGED nonLoaderPagingVars

TableNext ==
    \/ TaskCreateKernel
    \/ \E s \in TaskSlots : TaskExitOf(s)

\* The state of a load: page tables, the next free frame, the
\* alloc_page_table calls that can still succeed, the frames the load took,
\* and whether every map_page_64 so far returned 0.
LoadStart(mem, nf, tables) ==
    [mem |-> mem, nf |-> nf, tables |-> tables, frames |-> {}, ok |-> TRUE,
     read_failed |-> FALSE]

\* The load after alloc_frame gave a page whose vfs_read came back short.
ReadFailed(st) ==
    [st EXCEPT !.frames = @ \cup {st.nf}, !.nf = @ + 1, !.ok = FALSE,
               !.read_failed = TRUE]

\* The load after a map_page_64 with result r, begun when nf0 was the next
\* free frame.
Mapped(st, nf0, r) ==
    [st EXCEPT !.mem = r.mem, !.nf = r.nf,
               !.tables = @ - (r.nf - nf0), !.ok = (r.ret = 0)]

\* The first page of the user stack area, 0x7FFFB000.
user_stack_base == 524283

\* USER_STACK_SIZE / PAGE_SIZE_4K
stack_pages == 4

\* elf_run maps the stack pages: user_stack_phys + i at user_stack_base + i,
\* P|RW|USER; it stops at the first failure.
RECURSIVE StackLoop(_, _, _, _)
StackLoop(st, pml4, user_stack_phys, i) ==
    IF i = stack_pages \/ ~st.ok THEN st
    ELSE StackLoop(Mapped(st, st.nf,
                          MapPage64(st.mem, st.nf, pml4, user_stack_phys + i,
                                    user_stack_base + i,
                                    PAGING_RW + PAGING_USER + PAGING_PRESENT,
                                    st.tables)),
                   pml4, user_stack_phys, i + 1)

\* load_segment: for each page a frame from alloc_frame, filled by vfs_read
\* and mapped at vaddr_base + i with flags; it stops at the first failure.
\* read_fail is the page whose vfs_read comes back short, -1 for none.
RECURSIVE load_segment(_, _, _, _, _, _, _)
load_segment(st, pml4, vaddr_base, pages_needed, flags, read_fail, i) ==
    IF i = pages_needed \/ ~st.ok THEN st
    ELSE IF i = read_fail THEN ReadFailed(st)
    ELSE load_segment(Mapped([st EXCEPT !.frames = @ \cup {st.nf}],
                             st.nf + 1,
                             MapPage64(st.mem, st.nf + 1, pml4, st.nf,
                                       vaddr_base + i, flags, st.tables)),
                      pml4, vaddr_base, pages_needed, flags, read_fail,
                      i + 1)

\* elf_run after task_create gave c: the stack pages, then the segment.
ElfLoad(c, vaddr_base, pages_needed, flags, tables, read_fail) ==
    load_segment(StackLoop(LoadStart(c.mem, c.nf, tables),
                           c.tk[c.slot].page_directory,
                           c.nf - 1, 0),
                 c.tk[c.slot].page_directory, vaddr_base, pages_needed,
                 flags, read_fail, 0)

\* The end of elf_run: c is what task_create gave, st the load. A load
\* that failed returns -1; one that succeeded enters user mode.
ElfDone(c, st) ==
    /\ tasks' = [c.tk EXCEPT ![c.slot].frames = @ \cup st.frames]
    /\ created' = c.ntid
    /\ pt_mem' = st.mem
    /\ next_table_frame' = st.nf
    /\ user_pml4s' = user_pml4s \cup {c.tk[c.slot].page_directory}
    /\ last_elf' = [ret |-> IF st.ok THEN 0 ELSE -1, slot |-> c.slot,
                    map_failed |-> ~st.ok /\ ~st.read_failed]
    /\ in_user' = IF st.ok THEN c.slot ELSE in_user

\* The segments programs are linked with: at 0x400000 or 0x600000, one or
\* two pages.
SegmentBases == {1024, 1536}

\* elf_run(path) from the shell, for a file with a valid header and one
\* PT_LOAD segment.
ElfRun(vaddr_base, pages_needed, flags, tables, read_fail) ==
    /\ elf_runs < MaxElfRuns
    /\ in_user = NULL
    /\ FreeSlot(tasks) # NULL
    /\ next_table_frame + 4 + pages_needed + tables <= FrameLimit
    /\ ElfDone(task_create(tasks, pt_mem, next_table_frame, created, FALSE,
                           kernel_pml4_phys),
               ElfLoad(task_create(tasks, pt_mem, next_table_frame, created,
                                   FALSE, kernel_pml4_phys),
                       vaddr_base, pages_needed, flags, tables, read_fail))
    /\ elf_runs' = elf_runs + 1
    /\ UNCHANGED last_create
    /\ UNCHANGED <<kernel_pml4_phys, map_calls, last_map>>
    /\ UNCHANGED nonLoaderPagingVars

ElfNext ==
    \E vaddr_base \in SegmentBases, pages_needed \in 1..2,
       flags \in UserFlags, tables \in 0..3, read_fail \in -1..1 :
          ElfRun(vaddr_base, pages_needed, flags, tables, read_fail)

(***************************************************************************)
(* The two locks of the core: memmap_lock_storage of the frame allocator   *)
(* (mem/map.c) and heap_lock of the heap (mem/manager.c), along the paths  *)
(* of alloc_frame, free_frame, kmalloc and kfree. call_stack holds the     *)
(* functions under way, the running one last; each step is one stretch of  *)
(* code between two lock operations or calls. heap_expand returns 0 for    *)
(* every request, so a kmalloc that found no block finds one on its retry. *)
(***************************************************************************)
LockInit ==
    /\ call_stack = <<>>
    /\ held = <<>>
    /\ lock_ops = 0

Top == call_stack[Len(call_stack)]

Running(fn, pc) ==
    /\ call_stack # <<>>
    /\ Top.fn = fn
    /\ Top.pc = pc

\* The running function goes on at pc.
Goto(pc) == [call_stack EXCEPT ![Len(call_stack)].pc = pc]

\* The running function returns.
Return == SubSeq(call_stack, 1, Len(call_stack) - 1)

\* spin_lock_irqsave(l) and spin_unlock_irqrestore(l)
Acquire(l) == Append(held, l)

Release(l) == SubSeq(held, 1, Len(held) - 1)

\* The number of chunks alloc_frame scans.
max_chunk == (memmap.frames + frames_per_chunk - 1) \div frames_per_chunk

\* A caller outside the allocators calls fn with argument n.
CallTop(fn, pc, n) ==
    /\ call_stack = <<>>
    /\ lock_ops < MaxLockOps
    /\ call_stack' = <<[fn |-> fn, pc |-> pc, n |-> n]>>
    /\ lock_ops' = lock_ops + 1
    /\ UNCHANGED held
    /\ UNCHANGED nonLockVars

CallAllocFrame ==
    /\ memmap.frames # 0
    /\ Cardinality(outstanding) < MaxOutstanding
    /\ CallTop("alloc_frame", "lock", 0)

CallFreeFrame(a) == CallTop("free_frame", "lock", a)

CallKmalloc == CallTop("kmalloc_internal", "enter", 0)

CallKfree == CallTop("kfree", "lock", 0)

\* alloc_frame takes the lock of the frame allocator.
AfLock ==
    /\ Running("alloc_frame", "lock")
    /\ held' = Acquire("memmap_lock")
    /\ call_stack' = Goto("scan")
    /\ UNCHANGED lock_ops
    /\ UNCHANGED nonLockVars

\* alloc_frame at chunk Top.n: past the last chunk it gives up; a chunk
\* that does not exist is created by create_chunk; a chunk without a clear
\* bit is passed over; else the first clear bit is set.
AfScan ==
    /\ Running("alloc_frame", "scan")
    /\ IF Top.n >= max_chunk
       THEN /\ call_stack' = Goto("unlock")
            /\ UNCHANGED <<chunks, outstanding>>
       ELSE IF ~find_chunk(chunks, Top.n)
       THEN /\ call_stack' = Append(call_stack,
                                   [fn |-> "create_chunk", pc |-> "kmalloc_c",
                                    n |-> Top.n])
            /\ UNCHANGED <<chunks, outstanding>>
       ELSE IF FirstClear(chunks, Top.n, 0) = -1
       THEN /\ call_stack' = [call_stack EXCEPT ![Len(call_stack)].n = @ + 1]
            /\ UNCHANGED <<chunks, outstanding>>
       ELSE IF Top.n * frames_per_chunk + FirstClear(chunks, Top.n, 0)
                   >= memmap.frames
       THEN /\ call_stack' = Goto("unlock")
            /\ UNCHANGED <<chunks, outstanding>>
       ELSE /\ chunks' = chunk_set(chunks, Top.n,
                                   FirstClear(chunks, Top.n, 0))
            /\ outstanding' = outstanding \cup
                 {(memmap.start_frame + Top.n * frames_per_chunk
                      + FirstClear(chunks, Top.n, 0)) * FRAME_SIZE}
            /\ call_stack' = Goto("unlock")
    /\ UNCHANGED <<held, lock_ops>>
    /\ UNCHANGED <<memmap, reserved>>
    /\ UNCHANGED nonLockFrameVars

AfUnlock ==
    /\ Running("alloc_frame", "unlock")
    /\ held' = Release("memmap_lock")
    /\ call_stack' = Return
    /\ UNCHANGED lock_ops
    /\ UNCHANGED nonLockVars

\* create_chunk: kmalloc of the chunk_t, kmalloc of the words, then the
\* chunk is linked at the head of the list.
CcKmallocC ==
    /\ Running("create_chunk", "kmalloc_c")
    /\ call_stack' = Append(Goto("kmalloc_w"),
                            [fn |-> "kmalloc_internal", pc |-> "enter",
                             n |-> 0])
    /\ UNCHANGED <<held, lock_ops>>
    /\ UNCHANGED nonLockVars

CcKmallocW ==
    /\ Running("create_chunk", "kmalloc_w")
    /\ call_stack' = Append(Goto("link"),
                            [fn |-> "kmalloc_internal", pc |-> "enter",
                             n |-> 0])
    /\ UNCHANGED <<held, lock_ops>>
    /\ UNCHANGED nonLockVars

CcLink ==
    /\ Running("create_chunk", "link")
    /\ chunks' = create_chunk(chunks, Top.n)
    /\ call_stack' = Return
    /\ UNCHANGED <<held, lock_ops>>
    /\ UNCHANGED <<memmap, outstanding, reserved>>
    /\ UNCHANGED nonLockFrameVars

\* kmalloc_internal(size, retry_count), Top.n being retry_count: it takes
\* the heap lock and searches the free list.
KmEnter ==
    /\ Running("kmalloc_internal", "enter")
    /\ held' = Acquire("heap_lock")
    /\ call_stack' = Goto("search")
    /\ UNCHANGED lock_ops
    /\ UNCHANGED nonLockVars

\* A block fits: unlock and return it.
KmFound ==
    /\ Running("kmalloc_internal", "search")
    /\ held' = Release("heap_lock")
    /\ call_stack' = Return
    /\ UNCHANGED lock_ops
    /\ UNCHANGED nonLockVars

\* No block fits on the first try: unlock, heap_expand, then the retry.
KmMiss ==
    /\ Running("kmalloc_internal", "search")
    /\ Top.n = 0
    /\ held' = Release("heap_lock")
    /\ call_stack' = Append([call_stack EXCEPT
                                ![Len(call_stack)] =
                                    [fn |-> "kmalloc_internal",
                                     pc |-> "enter", n |-> 1]],
                            [fn |-> "heap_expand", pc |-> "lock", n |-> 0])
    /\ UNCHANGED lock_ops
    /\ UNCHANGED nonLockVars

\* heap_expand, kfree and free_frame hold their lock from fn's "lock" to
\* its "unlock" and call nothing in between.
LockStep(fn, l) ==
    /\ Running(fn, "lock")
    /\ held' = Acquire(l)
    /\ call_stack' = Goto("unlock")
    /\ UNCHANGED lock_ops
    /\ UNCHANGED nonLockVars

HeLock == LockStep("heap_expand", "heap_lock")

KfLock == LockStep("kfree", "heap_lock")

FfLock == LockStep("free_frame", "memmap_lock")

UnlockStep(fn, l) ==
    /\ Running(fn, "unlock")
    /\ held' = Release(l)
    /\ call_stack' = Return
    /\ UNCHANGED lock_ops

HeUnlock == UnlockStep("heap_expand", "heap_lock") /\ UNCHANGED nonLockVars

KfUnlock == UnlockStep("kfree", "heap_lock") /\ UNCHANGED nonLockVars

\* free_frame clears the bit of its frame before it unlocks.
FfUnlock ==
    /\ UnlockStep("free_frame", "memmap_lock")
    /\ chunks' = FreeFrameClear(Top.n)
    /\ outstanding' = outstanding \ {Top.n}
    /\ UNCHANGED <<memmap, reserved>>
    /\ UNCHANGED nonLockFrameVars

LockNext ==
    \/ CallAllocFrame
    \/ \E a \in outstanding : CallFreeFrame(a)
    \/ CallKmalloc
    \/ CallKfree
    \/ AfLock \/ AfScan \/ AfUnlock
    \/ CcKmallocC \/ CcKmallocW \/ CcLink
    \/ KmEnter \/ KmFound \/ KmMiss
    \/ HeLock \/ HeUnlock
    \/ KfLock \/ KfUnlock
    \/ FfLock \/ FfUnlock

(***************************************************************************)
(* Virtual-to-physical translation (mem/vmem.c): vmem_virt_to_phys64 and   *)
(* vmem_virt_to_phys under the three modes. Addresses are page-aligned and *)
(* given as page numbers; -1 stands for UINT64_MAX and UINT32_MAX. The     *)
(* tables are reached by their physical addresses (vmem_offset is 0 in     *)
(* WALK mode).                                                             *)
(***************************************************************************)
UINT64_MAX == -1

UINT32_MAX == -1

VmemModes == {"IDENTITY", "OFFSET", "WALK"}

XlateInit ==
    /\ current_mode = "IDENTITY"
    /\ vmem_offset = 0
    /\ last_xlate = [valid |-> FALSE]

\* vmem_virt_to_phys64(virt) with CR3 = cr3.
vmem_virt_to_phys64(mode, offset, mem, cr3, vpn) ==
    IF mode = "IDENTITY" THEN vpn
    ELSE IF mode = "OFFSET"
    THEN IF vpn - offset < 0 THEN 0 ELSE vpn - offset
    ELSE IF PageWalk(mem, cr3, vpn).ok THEN PageWalk(mem, cr3, vpn).pfn
    ELSE 0

\* The 32-bit word at index idx of a table of 64-bit entries: the low half
\* of entry idx / 2 (the frame below 4 GiB and the flags) or its high half
\* (zero).
Word32(tbl, idx) == IF idx % 2 = 0 THEN Ent(tbl, idx \div 2) ELSE NoEntry

\* vmem_virt_to_phys(virt) with CR3 = cr3: the walk reads the tables as
\* 32-bit two-level tables of 1024 words, with 4 MiB pages.
vmem_virt_to_phys(mode, offset, mem, cr3, vpn) ==
    IF mode = "IDENTITY" THEN vpn
    ELSE IF mode = "OFFSET"
    THEN IF vpn - offset < 0 THEN 0 ELSE vpn - offset
    ELSE LET pde == Word32(mem[cr3], (vpn \div 1024) % 1024)
         IN  IF ~HasFlag(pde.f, PAGING_PRESENT) THEN 0
             ELSE IF HasFlag(pde.f, PAGING_PS)
             THEN (pde.p \div 1024) * 1024 + (vpn % 1024)
             ELSE IF ~HasFlag(Word32(mem[pde.p], vpn % 1024).f,
                              PAGING_PRESENT)
             THEN 0
             ELSE Word32(mem[pde.p], vpn % 1024).p

\* vmem_set_mode(mode)
VmemSetMode(mode) ==
    /\ mode = "WALK" => vmem_offset = 0
    /\ current_mode' = mode
    /\ UNCHANGED <<vmem_offset, last_xlate>>
    /\ UNCHANGED nonXlateVars

\* vmem_set_offset(offset); vmem_reset is vmem_set_offset(0).
VmemSetOffset(offset) ==
    /\ current_mode # "WALK"
    /\ vmem_offset' = offset
    /\ UNCHANGED <<current_mode, last_xlate>>
    /\ UNCHANGED nonXlateVars

\* The address spaces CR3 may point to.
Cr3s == {kernel_pml4_phys} \cup user_pml4s

\* A caller translates page vpn with the 64-bit variant.
VirtToPhys64(cr3, vpn) ==
    /\ last_xlate' = [valid |-> TRUE, bits |-> 64, cr3 |-> cr3, virt |-> vpn,
                      mapped |-> PageWalk(pt_mem, cr3, vpn).ok,
                      ret |-> vmem_virt_to_phys64(current_mode, vmem_offset,
                                                  pt_mem, cr3, vpn)]
    /\ UNCHANGED <<current_mode, vmem_offset>>
    /\ UNCHANGED nonXlateVars

\* A caller translates page vpn with the 32-bit variant.
VirtToPhys32(cr3, vpn) ==
    /\ last_xlate' = [valid |-> TRUE, bits |-> 32, cr3 |-> cr3, virt |-> vpn,
                      mapped |-> PageWalk(pt_mem, cr3, vpn).ok,
                      ret |-> vmem_virt_to_phys(current_mode, vmem_offset,
                                                pt_mem, cr3, vpn)]
    /\ UNCHANGED <<current_mode, vmem_offset>>
    /\ UNCHANGED nonXlateVars

\* The pages translated: page 0 and pages of the identity-mapped low 4 GiB,
\* the first page above 4 GiB, and a user page under PML4[1].
XlatePages32 == {0, 1024, 1536}

XlatePages64 == XlatePages32 \cup {1048576, 134217728 + 16}

XlateNext ==
    \/ CreateUserPml4
    \/ \E pml4 \in user_pml4s, virt \in UserPages, allocs \in 0..3 :
             MapPage(pml4, 12288, virt, 7, allocs)
    \/ \E mode \in VmemModes : VmemSetMode(mode)
    \/ \E offset \in {0, 256} : VmemSetOffset(offset)
    \/ \E cr3 \in Cr3s, vpn \in XlatePages64 : VirtToPhys64(cr3, vpn)
    \/ \E cr3 \in Cr3s, vpn \in XlatePages32 : VirtToPhys32(cr3, vpn)

(***************************************************************************)
(* Timer preemption and the interrupt flag.                                *)
(*                                                                         *)
(* kmain executes sti and then runs kloop for ever, so the shell, the      *)
(* loader and task_create run with interrupts enabled. task_schedule       *)
(* brackets the queue and current_task update with irq_save/irq_restore    *)
(* and calls task_switch after irq_restore. pos[t].at is where the code of *)
(* task t stands: "work" (kernel code outside task_schedule), "locked"     *)
(* (inside the irq_save region of task_schedule), "switch" (after          *)
(* irq_restore, before task_switch; old and nxt are the locals old_task    *)
(* and next_task). The boot context is also "halted" (cpu_halt in kloop)   *)
(* or "user" (task_enter_usermode), kept in idle_ctx.                      *)
(*                                                                         *)
(* Every created task is a user task: task_create is only called with     *)
(* kernel_mode = 0 and the loader stores the program's entry in regs.rip,  *)
(* so "work" of a created task is the code of its program. Kernel stacks   *)
(* are named by the TCB that owns them: task->kernel_stack is a frame of   *)
(* its own for a created task and the boot stack for the idle TCB.         *)
(***************************************************************************)
Work == [at |-> "work", old |-> NULL, nxt |-> NULL]

\* task->kernel_stack of TCB t, as the name of the stack.
KernelStackOf(t) == t

NotEntered == [task |-> NULL, via |-> "none", rsp0 |-> NULL, user |-> FALSE]

\* The context saved in the TCB of t resumes in the code of a user program.
UserCode(t) == IF t = IDLE THEN idle_ctx = "user" ELSE kpos[t].at = "work"

\* tss_init zeroes the TSS: rsp0 points into no stack.
PreemptInit ==
    /\ on_cpu = IDLE
    /\ kpos = [t \in Tids |-> Work]
    /\ iflag = TRUE
    /\ preempts = <<>>
    /\ tss_rsp0 = NULL
    /\ cpl = 0
    /\ last_entry = NotEntered

PosOf(t) == IF t = IDLE /\ idle_ctx # "kloop" THEN idle_ctx ELSE kpos[t].at

\* The shell in kloop: interrupts are enabled (sti in kmain).
InKloop == on_cpu = IDLE /\ PosOf(IDLE) = "work" /\ iflag

PreemptCreate == InKloop /\ TaskCreate

PreemptReady(t) == InKloop /\ TaskReady(t)

\* elf_run: tss_set_kernel_stack(current rsp), which is in the boot stack,
\* then task_enter_usermode: iretq with CS = 0x1B, SS = 0x23.
PreemptElfRun ==
    /\ InKloop /\ ElfRunEnter
    /\ tss_rsp0' = KernelStackOf(IDLE)
    /\ cpl' = 3
    /\ last_entry' = [task |-> IDLE, via |-> "task_enter_usermode",
                      rsp0 |-> tss_rsp0', user |-> TRUE]
    /\ UNCHANGED <<on_cpu, kpos, iflag, preempts>>
    /\ UNCHANGED nonSchedPreemptVars

\* kloop found nothing to do: cpu_halt waits for the next interrupt.
KloopHalt ==
    /\ InKloop /\ current_task = IDLE
    /\ idle_ctx' = "halted"
    /\ UNCHANGED <<state, current_task, ready_queue_head, ready_queue_tail,
                   next, next_tid, timer_vec, readied, dispatched, starved,
                   voluntary>>
    /\ UNCHANGED nonSchedVars

\* task_yield -> task_schedule: uint32_t flags = irq_save().
irq_save ==
    /\ on_cpu = current_task /\ PosOf(on_cpu) = "work"
    /\ state[current_task] = "Running"
    /\ iflag' = FALSE
    /\ kpos' = [kpos EXCEPT ![on_cpu] = [Work EXCEPT !.at = "locked"]]
    /\ UNCHANGED <<on_cpu, preempts, tss_rsp0, cpl, last_entry>>
    /\ UNCHANGED nonPreemptVars

\* task_schedule between irq_save and irq_restore: the queue and
\* current_task update; irq_restore(flags) on both ways out.
irq_restore ==
    /\ kpos[on_cpu].at = "locked"
    /\ TaskSchedule(state)
    /\ Resumed
    /\ voluntary' = (voluntary \/ current_task # IDLE)
    /\ UNCHANGED <<next_tid, idle_ctx, timer_vec, readied>>
    /\ iflag' = TRUE
    /\ kpos' = [kpos EXCEPT ![on_cpu] =
                  IF current_task' # current_task
                  THEN [at |-> "switch", old |-> current_task,
                        nxt |-> current_task']
                  ELSE Work]
    /\ UNCHANGED <<on_cpu, preempts, tss_rsp0, cpl, last_entry>>
    /\ UNCHANGED nonSchedPreemptVars

\* task_switch(&old_task->regs, &next_task->regs): the running context is
\* saved into old_task's TCB (it resumes after the call) and next_task's
\* TCB is loaded: registers, RFLAGS, CR3, then a ret to its regs.rip. The
\* code segment and tss.rsp0 stay as they are.
task_switch ==
    /\ kpos[on_cpu].at = "switch" /\ iflag
    /\ on_cpu' = kpos[on_cpu].nxt
    /\ kpos' = [kpos EXCEPT ![kpos[on_cpu].old] = Work]
    /\ last_entry' = [task |-> kpos[on_cpu].nxt, via |-> "task_switch",
                      rsp0 |-> tss_rsp0, user |-> UserCode(kpos[on_cpu].nxt)]
    /\ UNCHANGED <<iflag, preempts, tss_rsp0, cpl>>
    /\ UNCHANGED nonPreemptVars

(***************************************************************************)
(* Vector 48 with the interrupt flag in the picture: the CPU takes the     *)
(* interrupt only with IF set. irq_timer_entry stores the interrupted      *)
(* context in the TCB current_task points to, task_schedule_from_irq       *)
(* decides, task_restore loads the chosen TCB (or the handler returns to   *)
(* the interrupted code when nothing changes). A halted CPU resumes after  *)
(* the hlt.                                                                *)
(***************************************************************************)
PreemptTimer ==
    /\ iflag /\ timer_vec = VEC_APIC
    /\ Len(preempts) < MaxPreempts
    /\ TaskScheduleFromIrq(state)
    /\ Ticked
    /\ idle_ctx' = IF on_cpu = IDLE /\ idle_ctx = "halted" THEN "kloop"
                   ELSE idle_ctx
    /\ UNCHANGED <<next_tid, timer_vec, readied, voluntary>>
    /\ cpl' = IF current_task' # current_task THEN 0 ELSE cpl
    /\ preempts' = Append(preempts, [task |-> on_cpu, at |-> PosOf(on_cpu),
                                     current |-> current_task,
                                     chosen |-> current_task',
                                     cpl |-> cpl, after |-> cpl'])
    /\ kpos' = [kpos EXCEPT ![current_task] = kpos[on_cpu]]
    /\ on_cpu' = IF current_task' # current_task THEN current_task'
                 ELSE on_cpu
    /\ last_entry' =
          IF current_task' # current_task
          THEN [task |-> current_task', via |-> "task_restore",
                rsp0 |-> tss_rsp0, user |-> UserCode(current_task')]
          ELSE last_entry
    /\ UNCHANGED <<iflag, tss_rsp0>>
    /\ UNCHANGED nonSchedPreemptVars

PreemptNext ==
    \/ PreemptCreate
    \/ \E t \in NonIdle : PreemptReady(t)
    \/ PreemptElfRun
    \/ KloopHalt
    \/ irq_save
    \/ irq_restore
    \/ task_switch
    \/ PreemptTimer

(***************************************************************************)
(* The specifications: one per subsystem, the others at rest.              *)
(***************************************************************************)
Init == SchedInit /\ FrameInit /\ HeapInit /\ PagingInit /\ FatInit /\ BcInit /\ VfsInit /\ SbrkInit /\ SysInit /\ LoaderInit /\ LockInit /\ PreemptInit /\ XlateInit

Next == SchedNext

Spec == Init /\ [][Next]_vars

\* The frame allocator alone; the scheduler stays as task_init left it.
FrameSpec == Init /\ [][FrameNext]_vars

\* The boot state of the build that memory_init and the APIC timer give.
BootInit == Init /\ timer_vec = VEC_APIC /\ memmap.end_addr = 67108864

\* The heap alone, under callers that allocate, overrun and free.
HeapSpec == BootInit /\ [][HeapNext]_vars

\* The heap under holders that never write past their request.
CanarySpec == BootInit /\ [][CanaryNext]_vars

\* The heap under allocation only, from the fresh heap of memory_init.
PressureSpec == BootInit /\ [][PressureNext]_vars

\* Address spaces and the pages mapped into them.
PagingSpec == BootInit /\ [][PagingNext]_vars

XlateSpec == BootInit /\ [][XlateNext]_vars

\* The FAT16 volume alone, under callers that write files.
FatSpec == BootInit /\ [][FatNext]_vars

\* The block cache alone, under callers and a drive that can fail.
BcSpec == BootInit /\ [][BcNext]_vars

ServedSpec == BootInit /\ [][ServedNext]_vars

StubSpec == BootInit /\ [][StubNext]_vars

\* The CPU keeps executing a loop it is in.
WalkSpec == BootInit /\ [][WalkNext]_vars /\ WF_vars(WalkStep)

\* The VFS alone, under two tasks that open, read, stat and close files.
VfsSpec == BootInit /\ [][VfsNext]_vars

SeekSpec == BootInit /\ [][SeekNext]_vars

\* User tasks that move their program break.
SbrkSpec == BootInit /\ [][SbrkNext]_vars

\* A program making system calls by int 0x80.
SysSpec == BootInit /\ [][SysNext]_vars

SaveSpec == BootInit /\ [][SaveNext]_vars

\* The shell loading ELF programs while page tables can run out.
ElfSpec == BootInit /\ [][ElfNext]_vars

\* The shell creating tasks that run and exit, one at a time.
TableSpec == BootInit /\ [][TableNext]_vars

\* The allocators step by step, with the locks they take.
LockSpec == BootInit /\ [][LockNext]_vars

PreemptSpec == BootInit /\ [][PreemptNext]_vars

\* The scheduler under callers that also call task_ready on a TCB that is
\* queued or running.
ReadySpec == BootInit /\ [][ReadyNext]_vars

(***************************************************************************)
(* The scheduler under the premise that running tasks end: kloop calls     *)
(* task_yield once per iteration, a task that keeps getting the CPU        *)
(* eventually calls exit, task_exit goes on to task_schedule, and the      *)
(* timer keeps firing.                                                     *)
(***************************************************************************)
KloopYield == current_task = IDLE /\ TaskYield

FairSpec ==
    /\ Init
    /\ [][Next]_vars
    /\ WF_vars(KloopYield)
    /\ SF_vars(TaskExit)
    /\ WF_vars(TaskExitSchedule)
    /\ WF_vars(IrqTimerEntry)
    /\ WF_vars(IrqHandlerC32)

(***************************************************************************)
(* Properties of the scheduler.                                            *)
(***************************************************************************)
IsPrefix(a, b) ==
    /\ Len(a) <= Len(b)
    /\ \A i \in 1..Len(a) : a[i] = b[i]

\* The current task leaves the CPU while still runnable (yield or preempt).
SwitchedOut ==
    /\ state[current_task] = "Running"
    /\ current_task' # current_task

\* C1: the ready queue is FIFO. Tasks get the CPU for the first time in the
\* order task_ready was called on them (A, B, C after task_ready(A),
\* task_ready(B), task_ready(C)), the task dispatched is the head of the
\* queue, and a task that yields goes to the tail behind all waiting tasks.
C1_ReadyQueueFifo ==
    /\ [](IsPrefix(dispatched, readied))
    /\ [][SwitchedOut /\ ReadyQueue # <<>> =>
            /\ current_task' = Head(ReadyQueue)
            /\ ReadyQueue' = Append(Tail(ReadyQueue), current_task)]_vars

C1_Witness ==
    /\ readied = <<2, 1, 3>>
    /\ dispatched = <<2, 1, 3>>
    /\ current_task = 3
    /\ ReadyQueue = <<IDLE, 2, 1>>

\* C2: a dead TCB is never selected: a task that is Dead stays Dead (no
\* scheduling decision sets it Running) and does not become the current task.
C2_DeadNeverSelected ==
    [][\A t \in Tids :
          state[t] = "Dead" =>
              /\ state'[t] = "Dead"
              /\ current_task' = t => current_task = t]_vars

\* C3: the Running task (the current task) is not on the ready queue.
C3_RunningNotQueued ==
    /\ ~InQueue(current_task)
    /\ \A t \in Tids : state[t] = "Running" => ~InQueue(t)

C3_Witness ==
    /\ current_task # IDLE
    /\ state[current_task] = "Running"
    /\ Len(ReadyQueue) >= 2
    /\ voluntary

\* C4: the idle TCB (tid 0) is never on the ready queue.
C4_IdleNeverEnqueued == ~InQueue(IDLE)

\* C5: when every task eventually exits, each enqueued task runs and ends
\* Dead (Dead is entered from Running, Running from Ready), the ready queue
\* becomes empty with idle current, and idle stays current until another
\* task is enqueued.
AllExited == \A i \in 1..Len(readied) : state[readied[i]] = "Dead"

Quiescent == ReadyQueue = <<>> /\ current_task = IDLE

C5_ExitDrainsQueue ==
    /\ \A t \in NonIdle : InQueue(t) ~> (state[t] = "Dead")
    /\ AllExited ~> Quiescent
    /\ [][(AllExited /\ Quiescent /\ readied' = readied) => Quiescent']_vars
    /\ [][\A t \in NonIdle :
            /\ (state[t] # "Dead" /\ state'[t] = "Dead") => state[t] = "Running"
            /\ (state[t] # "Running" /\ state'[t] = "Running")
                   => state[t] = "Ready"]_vars

C5_Witness ==
    /\ Len(readied) = 2
    /\ Len(dispatched) = 2
    /\ AllExited
    /\ Quiescent

\* C6: with two ready CPU-bound tasks that never yield or exit, each of
\* them holds the CPU again within one timer tick: no such task is off the
\* CPU for two ticks.
TwoSpinners ==
    /\ Len(readied) = 2
    /\ ~voluntary
    /\ \A i \in 1..Len(readied) : state[readied[i]] \in {"Ready", "Running"}

C6_ProgressWithinOneTick ==
    TwoSpinners => \A t \in NonIdle : starved[t] <= 1

(***************************************************************************)
(* Frame allocator claims.                                                 *)
(***************************************************************************)
\* The indexes (relative to memmap.start_frame) whose bitmap bit is set.
SetBits ==
    UNION {UNION {{chi * frames_per_chunk + (w - 1) * 32 + b :
                      b \in chunks[chi][w]} : w \in 1..chunk_word_count} :
              chi \in DOMAIN chunks}

\* C7: over every sequence of alloc_frame and free_frame calls, the number
\* of set bits of the frame bitmap, leaving aside the bits memmap_reserve
\* set, equals the number of frames alloc_frame returned that have not been
\* freed since; and those bits are the bits of exactly those frames.
C7_SetBitsAreOutstanding ==
    /\ Cardinality(SetBits \ reserved) = Cardinality(outstanding)
    /\ SetBits \ reserved =
           {(a \div FRAME_SIZE) - memmap.start_frame : a \in outstanding}
    /\ reserved \subseteq SetBits

\* Three frames are held above reserved ones, and a frame below one of
\* them has been handed out and freed again.
C7_Witness ==
    /\ Cardinality(outstanding) = 3
    /\ reserved # {}
    /\ \E a \in outstanding :
          LET i == (a \div FRAME_SIZE) - memmap.start_frame
          IN  /\ i > 0
              /\ (i - 1) \notin SetBits
              /\ \E j \in reserved : j < i - 1

(***************************************************************************)
(* Heap claims.                                                            *)
(***************************************************************************)
\* C8: after any sequence of kmalloc and kfree calls that has freed every
\* block it allocated, the free list is exactly one free block covering
\* the whole managed range heap_start_addr .. heap_end_addr.
C8_AllFreedOneBlock ==
    live = {} =>
        free_list = <<[addr |-> heap_start_addr,
                       size |-> heap_end_addr - heap_start_addr]>>

\* Every block has been freed again after the heap was expanded.
C8_Witness ==
    /\ live = {}
    /\ expansions = 1
    /\ heap_end_addr > heap_start_addr + INITIAL_HEAP
    /\ Len(free_list) = 1

\* C9: when the holder of a kmalloc(size) block has written past the
\* payload it asked for, if only the first bytes beyond it, kfree of the
\* block finds a canary mismatch.
C9_OverflowDetected == last_kfree.over > 0 => last_kfree.mismatch

\* C36: kfree logs no canary mismatch for a block whose holder wrote only
\* inside the size it asked for, whatever that size and whether or not
\* kmalloc split the free block it took.
C36_NoSpuriousMismatch == last_kfree.over = 0 => ~last_kfree.mismatch

\* C10 (as the code has it): from the fresh heap of 2 MiB, kmalloc of 64 KiB
\* succeeds every time; the first 31 blocks fit the initial heap, the 32nd
\* call makes the one heap expansion, which adds at least 1 MiB, and the
\* 33rd call is served from the expanded heap without another.
C10_ExpansionAt32nd ==
    (pressure_log # <<>> /\ pressure_log[1].size = 65536) =>
        /\ \A n \in 1..Len(pressure_log) :
              /\ pressure_log[n].ptr # 0
              /\ pressure_log[n].expands = (IF n = 32 THEN 1 ELSE 0)
        /\ heap_end_addr - heap_start_addr =
              IF Len(pressure_log) < 32 THEN INITIAL_HEAP
              ELSE INITIAL_HEAP + MIN_EXPAND

\* The 33rd block of 64 KiB has been handed out.
C10_Witness ==
    /\ Len(pressure_log) = 33
    /\ pressure_log[1].size = 65536
    /\ pressure_log[33].ptr # 0
    /\ expansions = 1

\* C10 (as stated): after 32 blocks of 64 KiB the 33rd allocation triggers
\* a heap expansion of at least 1 MiB and succeeds.
C10_ExpansionAt33rd ==
    (Len(pressure_log) >= 33 /\ pressure_log[1].size = 65536) =>
        /\ \A n \in 1..32 : pressure_log[n].expands = 0
        /\ pressure_log[33].expands >= 1
        /\ pressure_log[33].ptr # 0

(***************************************************************************)
(* Paging claims, checked under PagingSpec.                                *)
(***************************************************************************)

OtherWindows(vpn) == {(vpn \div 512) * 512 + i : i \in PtIdx} \ {vpn}

\* C12: a successful map_page_64 of a page that a 2 MiB large page covered
\* leaves each of the other 511 windows of the region resolving to the
\* physical page it resolved to before the call.
C12_SplitKeepsWindows ==
    [][(map_calls' = map_calls + 1 /\ last_map'.split /\ last_map'.ret = 0)
         => \A w \in OtherWindows(last_map'.virt) :
               LET before == PageWalk(pt_mem, last_map'.pml4, w)
                   after == PageWalk(pt_mem', last_map'.pml4, w)
               IN  before.ok /\ after.ok /\ after.pfn = before.pfn]_vars

\* A large page was split, and a neighbouring window still resolves to
\* itself through the new page table.
C12_Witness ==
    /\ last_map.split
    /\ last_map.ret = 0
    /\ \E w \in OtherWindows(last_map.virt) :
          /\ PageWalk(pt_mem, last_map.pml4, w).level = "4K"
          /\ PageWalk(pt_mem, last_map.pml4, w).pfn = w

\* The address spaces other than pml4: the other tasks' and the kernel's.
OtherSpaces(pml4) == (user_pml4s \cup {kernel_pml4_phys}) \ {pml4}

\* C13: a map_page_64 into one task's PML4 of a page in the low half leaves
\* what that page resolves to in every other address space as it was.
C13_LowHalfPrivate ==
    [][(map_calls' = map_calls + 1 /\ pml4_idx(last_map'.virt) < 256)
         => \A o \in OtherSpaces(last_map'.pml4) :
               PageWalk(pt_mem', o, last_map'.virt)
                   = PageWalk(pt_mem, o, last_map'.virt)]_vars

(***************************************************************************)
(* FAT16 claims, checked under FatSpec.                                    *)
(***************************************************************************)

\* C14: after a successful write_file(p, data, n), read_file(p, buf, n)
\* succeeds and puts the n bytes of data in buf.
C14_WriteThenRead ==
    (fat_writes > 0 /\ last_write.ret = 0) =>
        LET rd == fat16_read_file(fat, root, cluster_data, last_write.path,
                                  last_write.len)
        IN  rd.ret = 0 /\ rd.out = last_write.buf

\* The first n clusters of the chain from c on are clusters of the volume
\* marked as used in the FAT.
RECURSIVE ChainAllocated(_, _, _)
ChainAllocated(f, c, n) ==
    \/ n = 0
    \/ /\ c \in FatClusters
       /\ f[c] # 0
       /\ ChainAllocated(f, f[c], n - 1)

\* C38: a fat16_write_file that returns an error for a file that existed
\* leaves its directory entry on a chain of used clusters, and read_file
\* gives the contents the file had before the call.
C38_FailedWriteKeepsFile ==
    (fat_writes > 0 /\ last_write.ret # 0 /\ last_write.before.ret = 0) =>
        LET res == fat16_resolve_path_bytes(root, last_write.path)
        IN  /\ res.r = 0
            /\ ChainAllocated(fat, root[res.ent].start,
                   (root[res.ent].size + cluster_bytes - 1)
                       \div cluster_bytes)
            /\ fat16_read_file(fat, root, cluster_data, last_write.path,
                               total_clusters * cluster_bytes)
                   = last_write.before

\* C39: directory lookup, file read and free_chain come to their end
\* whatever the FAT holds, chains that run in a circle included.
C39_WalksTerminate == (walk.at \in {"loop", "link"}) ~> (walk.at = "done")

(***************************************************************************)
(* Block cache claims, checked under BcSpec.                               *)
(***************************************************************************)

\* C15: after block_cache_write(b, X), a flush, a destroy and a new
\* block_cache_init on the drive, each of them done without a drive error,
\* the first block_cache_read(b) the drive serves returns X.
C15_WriteSurvivesReinit ==
    bc_seq.stage = 5 =>
        /\ bc_last_read.b = bc_seq.b
        /\ bc_last_read.ret = 0
        /\ bc_last_read.data = bc_seq.X

\* The sequence was run to its end and the read came from the drive.
C15_Witness ==
    /\ bc_seq.stage = 5
    /\ bc_last_read.data = bc_seq.X
    /\ read_block_from_disk(bc_disk, bc_seq.b) = bc_seq.X
    /\ bc_seq.X = <<1, 2>>

(***************************************************************************)
(* VFS claims, checked under VfsSpec.                                      *)
(***************************************************************************)

\* C16: a vfs_fstat that follows at once the vfs_open that returned its fd
\* reports the size of the file, and the backend was asked for no file
\* contents from the start of the open to the return of the fstat.
C16_OpenThenFstat ==
    (last_fstat.after_open /\ last_fstat.path \in DOMAIN VfsContent) =>
        /\ last_fstat.ret = 0
        /\ last_fstat.size = Len(VfsContent[last_fstat.path])
        /\ last_fstat.reads = last_fstat.reads_before

\* An fstat right after the open of a file with contents, once another
\* file was read.
C16_Witness ==
    /\ last_fstat.after_open
    /\ last_fstat.path = "/a.txt"
    /\ last_fstat.size = 3
    /\ backend_reads > 0

\* C17: each fd of a task leads to the file that task opened on it, no
\* handle is shared by two fds, and a read returns the bytes of the file
\* the reading task opened on the fd, whatever the other task did before.
C17_FdIsolation ==
    /\ \A t \in VfsTasks, fd \in FdRange :
          fds[t][fd] # -1 =>
             /\ fds[t][fd] \in DOMAIN open_files
             /\ open_files[fds[t][fd]].path = fd_path[t][fd]
             /\ \A u \in VfsTasks, fe \in FdRange :
                   fds[u][fe] = fds[t][fd] => (u = t /\ fe = fd)
    /\ last_vread.ret > 0 =>
          last_vread.data = SubSeq(VfsContent[last_vread.path],
                                   last_vread.pos + 1,
                                   last_vread.pos + last_vread.ret)

\* Task 1 has /a.txt and task 2 has /b.txt, each on its fd 3; task 2 has
\* read its file and task 1 then read the bytes of /a.txt.
C17_Witness ==
    /\ fd_path[1][3] = "/a.txt"
    /\ fd_path[2][3] = "/b.txt"
    /\ open_files[fds[2][3]].has_buf
    /\ last_vread.task = 1
    /\ last_vread.fd = 3
    /\ last_vread.data = <<1, 2>>

\* C20: a vfs_read of one byte or more returns 0 only at end of file: the
\* backend reported no error during the call and the position is at or
\* past the size of the file.
C20_ZeroOnlyAtEof ==
    (last_vread.task # 0 /\ last_vread.ret = 0 /\ last_vread.len > 0) =>
        /\ ~last_vread.backend_err
        /\ last_vread.pos >= last_vread.size

\* C21: a vfs_open of a path the volume has no entry for returns a negative
\* value and leaves neither a per-task fd nor a global handle behind.
C21_OpenMissingFails ==
    (last_open.seq > 0 /\ last_open.path \notin DOMAIN VfsContent)
        => /\ last_open.fd < 0
           /\ \A g \in DOMAIN open_files :
                 open_files[g].path # last_open.path

(***************************************************************************)
(* Program break claims, checked under SbrkSpec.                           *)
(***************************************************************************)

\* The pages of the 8192 bytes from address a on.
HeapPages(a) == (a \div PAGE_SIZE)..((a + 8 - 1) \div PAGE_SIZE)

\* C18: a program whose calls of the library were sbrk(0) and then
\* sbrk(8192) got from the second an address, not -1, whose 8192 bytes are
\* mapped user-accessible in its address space, on frames filled with zero.
C18_LibSbrkUsable ==
    \A t \in DOMAIN lib_history :
        (/\ Len(lib_history[t]) = 2
         /\ lib_history[t][1].lib /\ lib_history[t][1].inc = 0
         /\ lib_history[t][2].lib /\ lib_history[t][2].inc = 8)
        => /\ lib_history[t][2].ret # -1
           /\ \A v \in HeapPages(lib_history[t][2].ret) :
                 LET w == PageWalk(pt_mem, t, v)
                 IN  w.ok /\ w.user /\ w.pfn \in frame_zeroed

(***************************************************************************)
(* System call entry claims, checked under SysSpec.                        *)
(***************************************************************************)

\* C19: after a system call by int 0x80, the dispatcher got the number from
\* the caller's RAX and the arguments from its RDI, RSI, RDX, R10, R8 and R9,
\* and the caller's RAX holds the result.
C19_Int80Convention ==
    last_int80.valid =>
        /\ last_int80.call.num = last_int80.before.rax
        /\ last_int80.call.a0 = last_int80.before.rdi
        /\ last_int80.call.a1 = last_int80.before.rsi
        /\ last_int80.call.a2 = last_int80.before.rdx
        /\ last_int80.call.a3 = last_int80.before.r10
        /\ last_int80.call.a4 = last_int80.before.r8
        /\ last_int80.call.a5 = last_int80.before.r9
        /\ cpu_regs.rax = last_int80.ret

\* C26: int 0x80 and the syscall instruction hand syscall_entry_c the same
\* frame layout: entered with the same registers, the two frames hold the
\* same value at each index the dispatcher reads (RAX, RDI, RSI, RDX, R10,
\* R8, R9).
C26_SameFrameLayout ==
    (last_int80.valid /\ last_syscall.valid
        /\ last_int80.before = last_syscall.before)
        => \A i \in {0, 6, 5, 2, 9, 7, 8} :
               last_int80.frame[i] = last_syscall.frame[i]

\* C27: after the timer path's save, every register field of the TCB holds
\* the value that register had in the interrupted task.
C27_SavedSnapshotCanonical ==
    last_timer.valid =>
        /\ \A r \in RegNames : tcb_regs[r] = last_timer.regs[r]
        /\ tcb_regs.rip = last_timer.rip
        /\ tcb_regs.rsp = last_timer.rsp
        /\ tcb_regs.rflags = last_timer.rflags

\* C37: on a drive that serves every transfer, block_cache_read(b) returns
\* 0 and the data of the latest block_cache_write(b), or the drive's
\* contents of b when b was never written, over more blocks than entries.
C37_CacheTransparent ==
    bc_view.reads > 0 =>
        /\ bc_last_read.ret = 0
        /\ bc_last_read.data = bc_view.expect

\* Without a flush, a written block was evicted and came back from the
\* drive.
C37_Witness ==
    /\ bc_view.reads > 0
    /\ bc_last_read.data = <<1, 2>>
    /\ bc_view.expect = <<1, 2>>
    /\ Lookup(bc_cache.entries, bc_last_read.b, 0) # NULL
    /\ ~bc_cache.entries[Lookup(bc_cache.entries, bc_last_read.b, 0)].dirty
    /\ bc_cache.timestamp = bc_ops

\* C28: every cache entry that is valid and not dirty holds the on-device
\* contents of its block, also after a device read or write-back failed.
C28_CleanEntriesMatchDevice ==
    bc_cache # NoCache =>
        \A i \in DOMAIN bc_cache.entries :
            (bc_cache.entries[i].valid /\ ~bc_cache.entries[i].dirty)
                => bc_cache.entries[i].data =
                       read_block_from_disk(bc_disk,
                                            bc_cache.entries[i].block_num)

\* C29: for every open global file handle, offset is at most buf_size,
\* whatever vfs_read, vfs_write and vfs_lseek calls were made.
C29_OffsetWithinSize ==
    \A g \in DOMAIN open_files :
        open_files[g].offset <= open_files[g].buf_size

\* C30: the translation of an address that is not mapped returns the error
\* sentinel (UINT32_MAX from the 32-bit variant, UINT64_MAX from the 64-bit
\* one), and a successful translation never returns it.
C30_UnmappedGivesSentinel ==
    last_xlate.valid =>
        LET sentinel == IF last_xlate.bits = 64 THEN UINT64_MAX
                        ELSE UINT32_MAX
        IN  /\ ~last_xlate.mapped => last_xlate.ret = sentinel
            /\ last_xlate.mapped => last_xlate.ret # sentinel

(***************************************************************************)
(* Task table and loader claims, checked under ElfSpec and TableSpec.      *)
(***************************************************************************)

\* C22: after an elf_run in which a page mapping failed, elf_run has returned
\* -1, the task it created is not running, and neither the task's slot nor
\* any frame allocated for it is still in use.
C22_LoadFailureCleansUp ==
    last_elf.map_failed
        => /\ last_elf.ret = -1
           /\ in_user # last_elf.slot
           /\ tasks[last_elf.slot] = NoTcb

\* C25: a task_create of the shell, called when every task created before
\* has exited, finds a free slot.
C25_SlotsComeBack == last_create.others_dead => last_create.ret # NULL

(***************************************************************************)
(* Lock claims, checked under LockSpec.                                    *)
(***************************************************************************)

\* C23: no path takes the heap lock or the lock of the frame allocator while
\* it holds either of them: at most one of the two is held at any time.
C23_NoNestedLocks == Len(held) <= 1

\* C35: every frame mapped as a user-stack page is in use in the frame
\* allocator while the mapping exists: once elf_run has mapped the stack of
\* its task (page 0 resolves to the task's user-stack frame), each of the
\* four stack pages resolves to a frame alloc_frame has handed out.
FrameInUse(f) == f < next_table_frame

StackFrame(slot, i) ==
    PageWalk(pt_mem, tasks[slot].page_directory, user_stack_base + i).pfn

C35_StackFramesInUse ==
    (last_elf.slot # NULL /\ StackFrame(last_elf.slot, 0)
                                 \in tasks[last_elf.slot].frames)
        => \A i \in 0..(stack_pages - 1) :
               FrameInUse(StackFrame(last_elf.slot, i))

\* C33: the ready queue is a well-formed list: the walk from
\* ready_queue_head ends (no cycle), no TCB is on it twice, and
\* ready_queue_tail is its last element (NULL when it is empty).
QueueWellFormed(q, tail) ==
    /\ Len(q) <= MaxTid + 1
    /\ \A i, j \in 1..Len(q) : q[i] = q[j] => i = j
    /\ tail = IF q = <<>> THEN NULL ELSE q[Len(q)]

C33_ReadyQueueWellFormed == QueueWellFormed(ReadyQueue, ready_queue_tail)

(***************************************************************************)
(* Preemption claims.                                                      *)
(***************************************************************************)
\* C24: timer preemption never interrupts a kernel-mode critical section:
\* every timer interrupt that reached the preempt path found the CPU in
\* user code or in kernel code that was waiting (halted).
C24_PreemptOnlyUserOrWaiting ==
    \A i \in 1..Len(preempts) : preempts[i].at \in {"user", "halted"}

\* A timer interrupt between irq_restore and task_switch of task_schedule:
\* current_task already names the next task.
NeverPreemptedBeforeSwitch ==
    \A i \in 1..Len(preempts) : preempts[i].at # "switch"

\* C31: at every transfer of the CPU into the code of a user program
\* (task_enter_usermode, task_switch or task_restore) tss.rsp0 points into
\* the kernel stack of the task entered.
C31_Rsp0OfEnteredTask ==
    last_entry.user => last_entry.rsp0 = KernelStackOf(last_entry.task)

\* C32: the timer preempt path stores the interrupted registers in the TCB
\* of the task that was executing: the TCB irq_timer_entry wrote
\* (current_task at the interrupt) is the TCB of the context on the CPU.
C32_SavedIntoExecutingTcb ==
    \A i \in 1..Len(preempts) : preempts[i].current = preempts[i].task

\* C34: a context the timer interrupted in user code at CPL 3 runs at CPL 3
\* again when a later timer interrupt resumes it through task_restore.
C34_ResumedAtUserPrivilege ==
    \A i, j \in 1..Len(preempts) :
        (/\ i < j
         /\ preempts[i].at = "user" /\ preempts[i].cpl = 3
         /\ preempts[i].current = preempts[i].task
         /\ preempts[i].chosen # preempts[i].current
         /\ preempts[j].chosen = preempts[i].task
         /\ preempts[j].chosen # preempts[j].current
         /\ \A k \in (i + 1)..(j - 1) : preempts[k].chosen # preempts[i].task)
        => preempts[j].after = 3

(***************************************************************************)
(* The library stubs against the dispatcher, checked under StubSpec.       *)
(***************************************************************************)

\* C40: every system call a library stub places selects, by its number, the
\* handler of the operation the stub stands for, and the handler takes the
\* arguments as the values the stub means them to be.
C40_StubsReachTheirHandlers ==
    \A i \in 1..Len(last_stub.calls) :
        last_stub.calls[i].got = last_stub.calls[i].wanted

\* The same for every stub but _sbrk.
OtherStubsAgree ==
    last_stub.stub # "_sbrk" =>
        \A i \in 1..Len(last_stub.calls) :
            last_stub.calls[i].got = last_stub.calls[i].wanted

====
